---- MODULE Spec2Model ----
(***************************************************************************)
(* BBNaija tweet sentiment pipeline: load -> clean -> score -> rate ->     *)
(* normalise -> charts -> summary, as driven by                            *)
(* BBNaijaAnalysisCoordinator.run_analysis.                                *)
(*                                                                         *)
(* Conventions of the model                                                *)
(*  - A Python str is a sequence of one-character strings, so that strip,  *)
(*    split, lower, endswith, len and stem are computed character by       *)
(*    character.                                                           *)
(*  - A float is an exact rational <<n, d>> in lowest terms with d > 0;    *)
(*    rounding error of IEEE doubles is not modelled.                      *)
(*  - A Python dict is a sequence of <<key, value>> pairs in insertion     *)
(*    order; assigning to an existing key keeps its position.              *)
(*  - A pandas DataFrame is [columns, index, data]: the set of column      *)
(*    labels, the row labels and one function column -> cell per row.      *)
(*  - An operation that may raise returns [exc |-> type, val |-> value],   *)
(*    exc = "None" when it returns normally.                               *)
(***************************************************************************)
EXTENDS Integers, Sequences, FiniteSets, TLC

(***************************************************************************)
(* Bounds of the model.                                                    *)
(***************************************************************************)
\* Largest number of entries of a directory listing / of a TweetData list.
MaxFiles == 3
\* Largest number of rows of a table in the row-by-row input families.
MaxRows == 2

(***************************************************************************)
(* Python str helpers.                                                     *)
(***************************************************************************)
UpperCase == <<"A","B","C","D","E","F","G","H","I","J","K","L","M",
               "N","O","P","Q","R","S","T","U","V","W","X","Y","Z">>
LowerCase == <<"a","b","c","d","e","f","g","h","i","j","k","l","m",
               "n","o","p","q","r","s","t","u","v","w","x","y","z">>

\* str.lower(), one character.
LowerChar(ch) ==
    IF \E k \in 1..Len(UpperCase) : UpperCase[k] = ch
    THEN LowerCase[CHOOSE k \in 1..Len(UpperCase) : UpperCase[k] = ch]
    ELSE ch

\* str.lower()
Lower(s) == [k \in 1..Len(s) |-> LowerChar(s[k])]

\* str.endswith(suffix)
EndsWith(s, suffix) ==
    /\ Len(s) >= Len(suffix)
    /\ SubSeq(s, Len(s) - Len(suffix) + 1, Len(s)) = suffix

\* str.strip(chars): every leading and every trailing character that is in
\* chars is removed.
RECURSIVE LStrip(_, _)
LStrip(s, chars) ==
    IF s # <<>> /\ Head(s) \in chars THEN LStrip(Tail(s), chars) ELSE s

RECURSIVE RStrip(_, _)
RStrip(s, chars) ==
    IF s # <<>> /\ s[Len(s)] \in chars
    THEN RStrip(SubSeq(s, 1, Len(s) - 1), chars)
    ELSE s

StripMutOne(s, chars) ==
    LET a == IF s # <<>> /\ Head(s) \in chars THEN Tail(s) ELSE s
    IN  IF a # <<>> /\ a[Len(a)] \in chars THEN SubSeq(a, 1, Len(a) - 1) ELSE a

Strip(s, chars) == RStrip(LStrip(s, chars), chars)

\* str.split(sep) for a one-character sep: the pieces between the
\* separators, empty pieces included; never an empty list.
RECURSIVE Split(_, _)
Split(s, sep) ==
    IF \E k \in 1..Len(s) : s[k] = sep
    THEN LET k == CHOOSE j \in 1..Len(s) :
                      s[j] = sep /\ \A m \in 1..(j - 1) : s[m] # sep
         IN  <<SubSeq(s, 1, k - 1)>> \o Split(SubSeq(s, k + 1, Len(s)), sep)
    ELSE <<s>>

\* A missing cell (float NaN): no str is equal to it.
NaN == <<"NaN">>

\* str(text) of a cell: the text itself, or "nan" for a missing cell.
Str(text) == IF text = NaN THEN <<"n","a","n">> ELSE text

\* pathlib.Path(filename).stem for a bare file name: the name up to its last
\* dot, unless that dot is the first or the last character.
PathStem(filename) ==
    LET dots == {k \in 1..Len(filename) : filename[k] = "."}
    IN  IF dots = {} THEN filename
        ELSE LET k == CHOOSE j \in dots : \A m \in dots : m <= j
             IN  IF k > 1 /\ k < Len(filename)
                 THEN SubSeq(filename, 1, k - 1)
                 ELSE filename

(***************************************************************************)
(* Floats as exact rationals.                                              *)
(***************************************************************************)
Abs(n) == IF n < 0 THEN -n ELSE n

RECURSIVE Gcd(_, _)
Gcd(a, b) == IF b = 0 THEN a ELSE Gcd(b, a % b)

\* The rational n/d (d # 0) in lowest terms with a positive denominator.
Rat(n, d) ==
    LET g == Gcd(Abs(n), Abs(d))
        s == IF d < 0 THEN -1 ELSE 1
    IN  <<(s * n) \div g, (s * d) \div g>>

Zero == Rat(0, 1)
RInt(n) == Rat(n, 1)
RAdd(a, b) == Rat(a[1] * b[2] + b[1] * a[2], a[2] * b[2])
RMul(a, b) == Rat(a[1] * b[1], a[2] * b[2])
RDiv(a, b) == Rat(a[1] * b[2], a[2] * b[1])
RLess(a, b) == a[1] * b[2] < b[1] * a[2]

\* sum(values), left to right.
RECURSIVE RSum(_)
RSum(vals) == IF vals = <<>> THEN Zero ELSE RAdd(Head(vals), RSum(Tail(vals)))

(***************************************************************************)
(* Python dicts: insertion-ordered sequences of <<key, value>>.            *)
(***************************************************************************)
EmptyDict == <<>>
DictKeys(d) == [k \in 1..Len(d) |-> d[k][1]]
DictValues(d) == [k \in 1..Len(d) |-> d[k][2]]
DictKeySet(d) == {d[k][1] : k \in 1..Len(d)}
DictHas(d, key) == key \in DictKeySet(d)
DictGet(d, key) == d[CHOOSE k \in 1..Len(d) : d[k][1] = key][2]

\* d[key] = value
DictSet(d, key, value) ==
    IF DictHas(d, key)
    THEN [k \in 1..Len(d) |-> IF d[k][1] = key THEN <<key, value>> ELSE d[k]]
    ELSE Append(d, <<key, value>>)

(***************************************************************************)
(* Config (src/config.py).                                                 *)
(***************************************************************************)
REQUIRED_COLUMNS == <<"date", "tweet", "urls">>
TWITTER_DOMAIN == <<"t","w","i","t","t","e","r",".","c","o","m">>
CsvExtension == <<".","c","s","v">>

SeqRange(s) == {s[k] : k \in 1..Len(s)}

(***************************************************************************)
(* DataFrames.                                                             *)
(***************************************************************************)
\* DataFrame.empty: an axis of length 0.
DfEmpty(df) == Len(df.data) = 0 \/ df.columns = {}

\* df[col] = values: the column is replaced, or added when it is new.
DfAssign(df, col, values) ==
    [columns |-> df.columns \cup {col},
     index   |-> df.index,
     data    |-> [k \in 1..Len(df.data) |->
                    [c \in df.columns \cup {col} |->
                        IF c = col THEN values[k] ELSE df.data[k][c]]]]

\* df[col] as a list.
DfColumn(df, col) == [k \in 1..Len(df.data) |-> df.data[k][col]]

\* The members of a set of positions, in increasing order.
RECURSIVE Ascending(_)
Ascending(S) ==
    IF S = {} THEN <<>>
    ELSE LET m == CHOOSE x \in S : \A y \in S : x <= y
         IN  <<m>> \o Ascending(S \ {m})

(***************************************************************************)
(* TweetDataCleaner (src/data/data_cleaner.py).                            *)
(***************************************************************************)
\* _select_required_columns: df[REQUIRED_COLUMNS].copy(), KeyError when a
\* required column is absent.
SelectRequiredColumns(df) ==
    IF SeqRange(REQUIRED_COLUMNS) \subseteq df.columns
    THEN [exc |-> "None",
          val |-> [columns |-> SeqRange(REQUIRED_COLUMNS),
                   index   |-> df.index,
                   data    |-> [k \in 1..Len(df.data) |->
                                  [c \in SeqRange(REQUIRED_COLUMNS) |->
                                      df.data[k][c]]]]]
    ELSE [exc |-> "KeyError", val |-> df]

ExtractDomainMutFirst(text) ==
    LET parts == Split(Strip(Str(text), {"[", "]"}), "/")
    IN  IF Len(parts) < 3 THEN <<>> ELSE parts[1]

\* The three lambdas of _clean_urls applied to one cell: strip the
\* brackets, split on "/", take the third piece if there is one.
ExtractDomain(text) ==
    LET parts == Split(Strip(Str(text), {"[", "]"}), "/")
    IN  IF Len(parts) < 3 THEN <<>> ELSE parts[3]

\* _clean_urls
CleanUrls(df) ==
    DfAssign(df, "urls",
             [k \in 1..Len(df.data) |-> ExtractDomain(df.data[k]["urls"])])

FilterNonTwitterUrlsMutAtLeast(url) ==
    IF Len(url) >= Len(TWITTER_DOMAIN)
    THEN IF url # TWITTER_DOMAIN THEN NaN ELSE url
    ELSE url

FilterNonTwitterUrlsMutAny(url) ==
    IF url # TWITTER_DOMAIN THEN NaN ELSE url

\* _filter_non_twitter_urls
FilterNonTwitterUrls(url) ==
    IF Len(url) > Len(TWITTER_DOMAIN)
    THEN IF url # TWITTER_DOMAIN THEN NaN ELSE url
    ELSE url

\* _remove_ads
RemoveAds(df) ==
    DfAssign(df, "urls",
             [k \in 1..Len(df.data) |->
                 FilterNonTwitterUrls(df.data[k]["urls"])])

RowIsMissingMutFalsy(row) ==
    \E c \in DOMAIN row : row[c] = NaN \/ row[c] = <<>>

\* The rows DataFrame.dropna() drops: a NaN in any column.
RowIsMissing(row) == \E c \in DOMAIN row : row[c] = NaN

RowIsComplete(row) == ~RowIsMissing(row)

\* _remove_missing_data: df.dropna(); the kept rows keep their labels.
RemoveMissingData(df) ==
    LET keep == Ascending({k \in 1..Len(df.data) : RowIsComplete(df.data[k])})
    IN  [columns |-> df.columns,
         index   |-> [k \in 1..Len(keep) |-> df.index[keep[k]]],
         data    |-> [k \in 1..Len(keep) |-> df.data[keep[k]]]]

\* clean_tweet_data.  arg is the table of the TweetData after the call:
\* every step works on the copy made first, so it is the table as given.
CleanTweetData(tweet_data) ==
    LET sel == SelectRequiredColumns(tweet_data.dataframe)
    IN  IF sel.exc # "None"
        THEN [exc |-> sel.exc, val |-> sel.val, arg |-> tweet_data.dataframe]
        ELSE [exc |-> "None",
              val |-> RemoveMissingData(RemoveAds(CleanUrls(sel.val))),
              arg |-> tweet_data.dataframe]

(***************************************************************************)
(* The scoring capability: SentimentIntensityAnalyzer.polarity_scores, a   *)
(* text -> {neg, neu, pos, compound} table that raises for one text.       *)
(***************************************************************************)
TextYay == <<"y","a","y">>
TextBoo == <<"b","o","o">>
TextMeh == <<"m","e","h">>
TextHmm == <<"h","m","m">>
TextNah == <<"n","a","h">>
TextErr == <<"?">>
TextFine == <<"f","i","n","e">>
TextPoor == <<"p","o","o","r">>

Scores(neg, neu, pos, compound) ==
    [neg |-> neg, neu |-> neu, pos |-> pos, compound |-> compound]

NeutralScores == Scores(Zero, RInt(1), Zero, Zero)

PolarityScores(text) ==
    CASE text = TextYay ->
           [exc |-> "None", val |-> Scores(Zero, Rat(1, 2), Rat(1, 2), Rat(1, 2))]
      [] text = TextBoo ->
           [exc |-> "None", val |-> Scores(Rat(1, 2), Rat(1, 2), Zero, Rat(-1, 2))]
      [] text = TextMeh ->
           [exc |-> "None", val |-> Scores(Zero, RInt(1), Zero, Zero)]
      [] text = TextHmm ->
           [exc |-> "None", val |-> Scores(Rat(1, 5), Rat(4, 5), Zero, Rat(-1, 5))]
      [] text = TextNah ->
           [exc |-> "None", val |-> Scores(Rat(3, 10), Rat(7, 10), Zero, Rat(-3, 10))]
      [] text = TextFine ->
           [exc |-> "None",
            val |-> Scores(Zero, Rat(19, 20), Rat(1, 20), Rat(1, 20))]
      [] text = TextPoor ->
           [exc |-> "None",
            val |-> Scores(Rat(1, 20), Rat(19, 20), Zero, Rat(-1, 20))]
      [] OTHER ->
           [exc |-> "Exception", val |-> NeutralScores]

AnalyzeTweetMutAllZero(tweet_text) ==
    LET r == PolarityScores(tweet_text)
    IN  IF r.exc = "None" THEN r.val ELSE Scores(Zero, Zero, Zero, Zero)

(***************************************************************************)
(* SentimentAnalyzer (src/analysis/sentiment_analyzer.py).                 *)
(***************************************************************************)
\* analyze_tweet
AnalyzeTweet(tweet_text) ==
    LET r == PolarityScores(tweet_text)
    IN  IF r.exc = "None" THEN r.val ELSE NeutralScores

\* analyze_dataframe, after the scores are computed: the columns scores,
\* compound, positive, negative and neutral are added in this order.
WithScores(df, scores) ==
    DfAssign(
      DfAssign(
        DfAssign(
          DfAssign(
            DfAssign(df, "scores", scores),
            "compound", [k \in 1..Len(scores) |-> scores[k].compound]),
          "positive", [k \in 1..Len(scores) |-> scores[k].pos]),
        "negative", [k \in 1..Len(scores) |-> scores[k].neg]),
      "neutral", [k \in 1..Len(scores) |-> scores[k].neu])

AnalyzeDataframeMutInPlace(df, text_column) ==
    IF text_column \notin df.columns
    THEN [exc |-> "KeyError", val |-> df, arg |-> df]
    ELSE [exc |-> "None",
          val |-> WithScores(df, [k \in 1..Len(df.data) |->
                                     AnalyzeTweet(df.data[k][text_column])]),
          arg |-> WithScores(df, [k \in 1..Len(df.data) |->
                                     AnalyzeTweet(df.data[k][text_column])])]

\* analyze_dataframe.  arg is the caller's table after the call: the
\* columns are assigned to the copy made by "df = df.copy()", so it is the
\* table as given.
AnalyzeDataframe(df, text_column) ==
    IF text_column \notin df.columns
    THEN [exc |-> "KeyError", val |-> df, arg |-> df]
    ELSE [exc |-> "None",
          val |-> WithScores(df, [k \in 1..Len(df.data) |->
                                     AnalyzeTweet(df.data[k][text_column])]),
          arg |-> df]

MeanMutSum(vals) == RSum(vals)

\* Series.mean() of a non-empty column.
Mean(vals) == RDiv(RSum(vals), RInt(Len(vals)))

PositiveThreshold == Rat(5, 100)
NegativeThreshold == Rat(-5, 100)

GetSentimentStatisticsMutNoEmptyCheck(df) ==
    IF "compound" \notin df.columns
    THEN [exc |-> "KeyError", val |-> <<>>]
    ELSE [exc |-> "None",
          val |-> [mean |-> IF Len(df.data) = 0 THEN NaN
                            ELSE Mean(DfColumn(df, "compound")),
                   positive_ratio |-> Zero,
                   negative_ratio |-> Zero,
                   neutral_ratio |-> Zero]]

GetSentimentStatisticsMutInclusive(df) ==
    IF "compound" \notin df.columns
    THEN [exc |-> "KeyError", val |-> <<>>]
    ELSE IF DfEmpty(df)
    THEN [exc |-> "None", val |-> <<>>]
    ELSE LET compound_scores == DfColumn(df, "compound")
             total == Len(compound_scores)
             positive_count ==
                 Cardinality({k \in 1..total :
                                 ~RLess(compound_scores[k], PositiveThreshold)})
             negative_count ==
                 Cardinality({k \in 1..total :
                                 ~RLess(NegativeThreshold, compound_scores[k])})
             neutral_count == total - positive_count - negative_count
         IN  [exc |-> "None",
              val |-> [mean |-> Mean(compound_scores),
                       positive_ratio |-> Rat(positive_count, total),
                       negative_ratio |-> Rat(negative_count, total),
                       neutral_ratio |-> Rat(neutral_count, total)]]

\* get_sentiment_statistics: the dict it returns, as a function on its keys
\* (median, std, min and max are left out: nothing reads them).
GetSentimentStatistics(df) ==
    IF "compound" \notin df.columns
    THEN [exc |-> "KeyError", val |-> <<>>]
    ELSE IF DfEmpty(df)
    THEN [exc |-> "None", val |-> <<>>]
    ELSE LET compound_scores == DfColumn(df, "compound")
             total == Len(compound_scores)
             positive_count ==
                 Cardinality({k \in 1..total :
                                 RLess(PositiveThreshold, compound_scores[k])})
             negative_count ==
                 Cardinality({k \in 1..total :
                                 RLess(compound_scores[k], NegativeThreshold)})
             neutral_count == total - positive_count - negative_count
         IN  [exc |-> "None",
              val |-> [mean |-> Mean(compound_scores),
                       positive_ratio |-> Rat(positive_count, total),
                       negative_ratio |-> Rat(negative_count, total),
                       neutral_ratio |-> Rat(neutral_count, total)]]

(***************************************************************************)
(* AnalysisResult (src/models/tweet_data.py).                              *)
(***************************************************************************)
EmptyResult ==
    [housemate_ratings |-> EmptyDict,
     raw_scores        |-> EmptyDict,
     total_tweets      |-> EmptyDict]

AddHousemateResultMutNoCount(result, name, rating, raw_score, tweet_count) ==
    [housemate_ratings |-> DictSet(result.housemate_ratings, name, rating),
     raw_scores        |-> DictSet(result.raw_scores, name, raw_score),
     total_tweets      |-> result.total_tweets]

\* add_housemate_result
AddHousemateResult(result, name, rating, raw_score, tweet_count) ==
    [housemate_ratings |-> DictSet(result.housemate_ratings, name, rating),
     raw_scores        |-> DictSet(result.raw_scores, name, raw_score),
     total_tweets      |-> DictSet(result.total_tweets, name, tweet_count)]

\* Python's None.
PyNone == <<"None">>

RECURSIVE MinFromMutLastTie(_, _, _)
MinFromMutLastTie(items, k, best) ==
    IF k > Len(items) THEN best
    ELSE MinFromMutLastTie(items, k + 1,
                           IF RLess(best[2], items[k][2]) THEN best
                           ELSE items[k])

\* min(items, key=lambda x: x[1]) from position k on: an item replaces the
\* best one so far only when its rating is strictly smaller.
RECURSIVE MinFrom(_, _, _)
MinFrom(items, k, best) ==
    IF k > Len(items) THEN best
    ELSE MinFrom(items, k + 1,
                 IF RLess(items[k][2], best[2]) THEN items[k] ELSE best)

\* max(items, key=lambda x: x[1]) from position k on.
RECURSIVE MaxFrom(_, _, _)
MaxFrom(items, k, best) ==
    IF k > Len(items) THEN best
    ELSE MaxFrom(items, k + 1,
                 IF RLess(best[2], items[k][2]) THEN items[k] ELSE best)

\* min() and max() of the items of a dict; ValueError when there is none.
PyMin(items) ==
    IF items = <<>> THEN [exc |-> "ValueError", val |-> <<>>]
    ELSE [exc |-> "None", val |-> MinFrom(items, 2, items[1])]

PyMax(items) ==
    IF items = <<>> THEN [exc |-> "ValueError", val |-> <<>>]
    ELSE [exc |-> "None", val |-> MaxFrom(items, 2, items[1])]

GetLowestRatedMutNoGuard(result) == PyMin(result.housemate_ratings)

\* get_lowest_rated
GetLowestRated(result) ==
    IF result.housemate_ratings = EmptyDict
    THEN [exc |-> "None", val |-> <<PyNone, Zero>>]
    ELSE PyMin(result.housemate_ratings)

\* get_highest_rated
GetHighestRated(result) ==
    IF result.housemate_ratings = EmptyDict
    THEN [exc |-> "None", val |-> <<PyNone, Zero>>]
    ELSE PyMax(result.housemate_ratings)

(***************************************************************************)
(* RatingCalculator (src/analysis/rating_calculator.py).                   *)
(***************************************************************************)
CalculateRatingMutNoEmptyCheck(df, housemate_name) ==
    IF "compound" \notin df.columns
    THEN [exc |-> "KeyError", val |-> <<Zero, 0>>]
    ELSE [exc |-> "None",
          val |-> <<IF DfEmpty(df) THEN Zero ELSE Mean(DfColumn(df, "compound")),
                    Len(df.data)>>]

CalculateRatingMutLastLabel(df, housemate_name) ==
    IF DfEmpty(df)
    THEN [exc |-> "ValueError", val |-> <<Zero, 0>>]
    ELSE IF "compound" \notin df.columns
    THEN [exc |-> "KeyError", val |-> <<Zero, 0>>]
    ELSE [exc |-> "None",
          val |-> <<Mean(DfColumn(df, "compound")),
                    df.index[Len(df.index)] + 1>>]

\* calculate_rating
CalculateRating(df, housemate_name) ==
    IF DfEmpty(df)
    THEN [exc |-> "ValueError", val |-> <<Zero, 0>>]
    ELSE IF "compound" \notin df.columns
    THEN [exc |-> "KeyError", val |-> <<Zero, 0>>]
    ELSE [exc |-> "None",
          val |-> <<Mean(DfColumn(df, "compound")), Len(df.data)>>]

NormalizeMutAbs(raw_ratings) ==
    LET total == RSum([k \in 1..Len(raw_ratings) |->
                          Rat(Abs(raw_ratings[k][2][1]), raw_ratings[k][2][2])])
    IN  IF total = Zero
        THEN [k \in 1..Len(raw_ratings) |->
                <<raw_ratings[k][1], RDiv(RInt(100), RInt(Len(raw_ratings)))>>]
        ELSE [k \in 1..Len(raw_ratings) |->
                <<raw_ratings[k][1],
                  RMul(RDiv(raw_ratings[k][2], total), RInt(100))>>]

NormalizeMutAllZero(raw_ratings) ==
    LET total == RSum(DictValues(raw_ratings))
    IN  IF \A k \in 1..Len(raw_ratings) : raw_ratings[k][2] = Zero
        THEN [k \in 1..Len(raw_ratings) |->
                <<raw_ratings[k][1], RDiv(RInt(100), RInt(Len(raw_ratings)))>>]
        ELSE IF total = Zero
        THEN [k \in 1..Len(raw_ratings) |-> <<raw_ratings[k][1], Zero>>]
        ELSE [k \in 1..Len(raw_ratings) |->
                <<raw_ratings[k][1],
                  RMul(RDiv(raw_ratings[k][2], total), RInt(100))>>]

NormalizeMutClamp(raw_ratings) ==
    LET total == RSum(DictValues(raw_ratings))
        Clamp(r) == IF RLess(r, Zero) THEN Zero
                    ELSE IF RLess(RInt(100), r) THEN RInt(100) ELSE r
    IN  IF total = Zero
        THEN [k \in 1..Len(raw_ratings) |->
                <<raw_ratings[k][1], RDiv(RInt(100), RInt(Len(raw_ratings)))>>]
        ELSE [k \in 1..Len(raw_ratings) |->
                <<raw_ratings[k][1],
                  Clamp(RMul(RDiv(raw_ratings[k][2], total), RInt(100)))>>]

NormalizeMutRunningTotal(raw_ratings) ==
    [k \in 1..Len(raw_ratings) |->
        <<raw_ratings[k][1],
          IF RSum(SubSeq(DictValues(raw_ratings), 1, k)) = Zero
          THEN RDiv(RInt(100), RInt(k))
          ELSE RMul(RDiv(raw_ratings[k][2],
                         RSum(SubSeq(DictValues(raw_ratings), 1, k))),
                    RInt(100))>>]

\* _normalize_to_percentages
NormalizeToPercentages(raw_ratings) ==
    LET total == RSum(DictValues(raw_ratings))
    IN  IF total = Zero
        THEN LET equal_share == RDiv(RInt(100), RInt(Len(raw_ratings)))
             IN  [k \in 1..Len(raw_ratings) |->
                    <<raw_ratings[k][1], equal_share>>]
        ELSE [k \in 1..Len(raw_ratings) |->
                <<raw_ratings[k][1],
                  RMul(RDiv(raw_ratings[k][2], total), RInt(100))>>]

DataCheckMutNever(analyzed) == "None"

\* calculate_all_ratings: "if not analyzed_data: raise ValueError".
DataCheck(analyzed) == IF analyzed = <<>> THEN "ValueError" ELSE "None"

RatingsCheckMutNever(raw) == "None"

\* calculate_all_ratings: "if not raw_ratings: raise ValueError".
RatingsCheck(raw) == IF raw = EmptyDict THEN "ValueError" ELSE "None"

\* The loop of calculate_all_ratings that fills the AnalysisResult, over
\* the keys of raw_ratings from position k on.
RECURSIVE FillResult(_, _, _, _, _)
FillResult(result, k, normalized_ratings, raw_ratings, tweet_counts) ==
    IF k > Len(raw_ratings) THEN result
    ELSE LET housemate_name == raw_ratings[k][1]
         IN  FillResult(
                 AddHousemateResult(result, housemate_name,
                                    DictGet(normalized_ratings, housemate_name),
                                    DictGet(raw_ratings, housemate_name),
                                    DictGet(tweet_counts, housemate_name)),
                 k + 1, normalized_ratings, raw_ratings, tweet_counts)

\* What get_eviction_prediction makes of get_lowest_rated's answer.
PredictionOf(lowest_rated) ==
    IF lowest_rated.exc # "None" THEN lowest_rated
    ELSE IF lowest_rated.val[1] = PyNone
    THEN [exc |-> "None", val |-> <<PyNone, Zero>>]
    ELSE lowest_rated

\* RatingCalculator.get_eviction_prediction, which the coordinator's
\* get_eviction_prediction returns as it is.
GetEvictionPrediction(result) == PredictionOf(GetLowestRated(result))

(***************************************************************************)
(* FileUtils (src/utils/file_utils.py).  A directory is                    *)
(* [exists, is_dir, listing, content]: listing is os.listdir's answer, in  *)
(* the order the file system gives it; content maps a file name to         *)
(* [is_file, readable, columns, data], what the file holds.                *)
(***************************************************************************)
IsCsvFileMutCaseSensitive(filename) == EndsWith(filename, CsvExtension)

\* is_csv_file
IsCsvFile(filename) == EndsWith(Lower(filename), CsvExtension)

\* get_filename_without_extension
GetFilenameWithoutExtension(filename) == PathStem(filename)

\* The loop of find_csv_files over os.listdir(directory).
RECURSIVE CsvFilesOf(_)
CsvFilesOf(listing) ==
    IF listing = <<>> THEN <<>>
    ELSE (IF IsCsvFile(Head(listing))
          THEN <<<<Head(listing), GetFilenameWithoutExtension(Head(listing))>>>>
          ELSE <<>>)
         \o CsvFilesOf(Tail(listing))

\* find_csv_files
FindCsvFiles(dir) ==
    IF ~dir.exists THEN [exc |-> "FileNotFoundError", val |-> <<>>]
    ELSE IF ~dir.is_dir THEN [exc |-> "NotADirectoryError", val |-> <<>>]
    ELSE [exc |-> "None", val |-> CsvFilesOf(dir.listing)]

\* validate_file_path
ValidateFilePath(file) == file.is_file /\ file.readable

(***************************************************************************)
(* TweetDataLoader (src/data/data_loader.py).                              *)
(***************************************************************************)
\* pd.read_csv: rows labelled 0, 1, ...; EmptyDataError when the file has
\* no header to parse.
ReadCsv(file) ==
    IF file.columns = {}
    THEN [exc |-> "EmptyDataError", val |-> <<>>]
    ELSE [exc |-> "None",
          val |-> [columns |-> file.columns,
                   index   |-> [k \in 1..Len(file.data) |-> k - 1],
                   data    |-> file.data]]

MissingColumnsMutReversed(df) == df.columns \ SeqRange(REQUIRED_COLUMNS)

\* The columns _validate_columns reports missing.
MissingColumns(df) == SeqRange(REQUIRED_COLUMNS) \ df.columns

\* TweetData(...), with the checks of __post_init__.
NewTweetData(housemate_name, df, file_path) ==
    IF DfEmpty(df) \/ housemate_name = <<>>
    THEN [exc |-> "ValueError", val |-> <<>>]
    ELSE [exc |-> "None",
          val |-> [housemate_name |-> housemate_name,
                   dataframe      |-> df,
                   file_path      |-> file_path]]

\* _load_single_file; missing is what a missing-column failure reports.
LoadSingleFile(dir, filename, housemate_name) ==
    LET file == dir.content[filename]
    IN  IF ~ValidateFilePath(file)
        THEN [exc |-> "FileNotFoundError", missing |-> {}, val |-> <<>>]
        ELSE LET read == ReadCsv(file)
             IN  IF read.exc # "None"
                 THEN [exc |-> read.exc, missing |-> {}, val |-> <<>>]
                 ELSE IF DfEmpty(read.val)
                 THEN [exc |-> "ValueError", missing |-> {}, val |-> <<>>]
                 ELSE IF MissingColumns(read.val) # {}
                 THEN [exc |-> "ValueError",
                       missing |-> MissingColumns(read.val), val |-> <<>>]
                 ELSE LET td == NewTweetData(housemate_name, read.val, filename)
                      IN  [exc |-> td.exc, missing |-> {}, val |-> td.val]

(***************************************************************************)
(* The loop bodies of the batch stages: one subject, with the try/except   *)
(* around it.  Each returns the collections as the iteration leaves them   *)
(* and whether the except branch logged a failure.                         *)
(***************************************************************************)
FilesCheckMutNever(files) == "None"

\* load_all_tweets: "if not csv_files: raise ValueError".
FilesCheck(files) == IF files = <<>> THEN "ValueError" ELSE "None"

LoadedCheckMutNever(list) == "None"

\* load_all_tweets: "if not tweet_data_list: raise ValueError".
LoadedCheck(list) == IF list = <<>> THEN "ValueError" ELSE "None"

LoadStepMutDropLoaded(list, dir, csv_file) ==
    LET r == LoadSingleFile(dir, csv_file[1], csv_file[2])
    IN  IF r.exc = "None"
        THEN [list |-> Append(list, r.val), failed |-> FALSE, missing |-> {}]
        ELSE [list |-> <<>>, failed |-> TRUE, missing |-> r.missing]

\* The body of the loop of load_all_tweets.
LoadStep(list, dir, csv_file) ==
    LET r == LoadSingleFile(dir, csv_file[1], csv_file[2])
    IN  IF r.exc = "None"
        THEN [list |-> Append(list, r.val), failed |-> FALSE, missing |-> {}]
        ELSE [list |-> list, failed |-> TRUE, missing |-> r.missing]

CleanStepMutDropAll(list, tweet_data) ==
    LET r == CleanTweetData(tweet_data)
    IN  IF r.exc = "None"
        THEN [list |-> Append(list, <<tweet_data.housemate_name, r.val>>),
              failed |-> FALSE]
        ELSE [list |-> <<>>, failed |-> TRUE]

\* The body of the loop of clean_all_tweet_data.
CleanStep(list, tweet_data) ==
    LET r == CleanTweetData(tweet_data)
    IN  IF r.exc = "None"
        THEN [list |-> Append(list, <<tweet_data.housemate_name, r.val>>),
              failed |-> FALSE]
        ELSE [list |-> list, failed |-> TRUE]

AnalyzeStepMutStatsFirst(list, entry) ==
    LET a == AnalyzeDataframe(entry[2], "tweet")
    IN  IF a.exc # "None"
        THEN [list |-> list, failed |-> TRUE]
        ELSE LET stats == GetSentimentStatistics(a.val)
             IN  IF \/ stats.exc # "None"
                    \/ ~({"mean", "positive_ratio", "negative_ratio"}
                           \subseteq DOMAIN stats.val)
                 THEN [list |-> list, failed |-> TRUE]
                 ELSE [list |-> Append(list, <<entry[1], a.val>>),
                       failed |-> FALSE]

\* The body of the loop of _analyze_sentiment: the subject is appended as
\* soon as analyze_dataframe returns, then the statistics are read for the
\* log line, which raises KeyError when they are the empty dict.
AnalyzeStep(list, entry) ==
    LET a == AnalyzeDataframe(entry[2], "tweet")
    IN  IF a.exc # "None"
        THEN [list |-> list, failed |-> TRUE]
        ELSE LET stats == GetSentimentStatistics(a.val)
             IN  [list |-> Append(list, <<entry[1], a.val>>),
                  failed |-> \/ stats.exc # "None"
                             \/ ~({"mean", "positive_ratio", "negative_ratio"}
                                    \subseteq DOMAIN stats.val)]

RateStepMutKeepFirst(raw, counts, entry) ==
    LET r == CalculateRating(entry[2], entry[1])
    IN  IF r.exc = "None"
        THEN IF DictHas(raw, entry[1])
             THEN [raw_ratings |-> raw, tweet_counts |-> counts,
                   failed |-> FALSE]
             ELSE [raw_ratings  |-> DictSet(raw, entry[1], r.val[1]),
                   tweet_counts |-> DictSet(counts, entry[1], r.val[2]),
                   failed       |-> FALSE]
        ELSE [raw_ratings |-> raw, tweet_counts |-> counts, failed |-> TRUE]

\* The body of the first loop of calculate_all_ratings.
RateStep(raw, counts, entry) ==
    LET r == CalculateRating(entry[2], entry[1])
    IN  IF r.exc = "None"
        THEN [raw_ratings  |-> DictSet(raw, entry[1], r.val[1]),
              tweet_counts |-> DictSet(counts, entry[1], r.val[2]),
              failed       |-> FALSE]
        ELSE [raw_ratings |-> raw, tweet_counts |-> counts, failed |-> TRUE]

(***************************************************************************)
(* State of one call of run_analysis.                                      *)
(***************************************************************************)
VARIABLES
    directory,          \* config.data_path as the file system holds it
    display_summary,    \* the argument of run_analysis
    pc,                 \* the step run_analysis is at
    i,                  \* position of the running loop in its list
    csv_files,          \* find_csv_files' answer
    tweet_data_list,    \* load_all_tweets' list
    cleaned_data,       \* clean_all_tweet_data's list
    analyzed_data,      \* _analyze_sentiment's list
    raw_ratings,        \* calculate_all_ratings: raw_ratings
    tweet_counts,       \* calculate_all_ratings: tweet_counts
    normalized_ratings, \* calculate_all_ratings: normalized_ratings
    result,             \* the AnalysisResult
    error,              \* the exception run_analysis raised, or NoError
    log,                \* the logger.error records of the batch stages
    charts_created,     \* create_all_charts saved the charts
    summary_displayed,  \* display_results_summary ran
    answer              \* what the last query on the AnalysisResult returned

vars == <<directory, display_summary, pc, i, csv_files, tweet_data_list,
          cleaned_data, analyzed_data, raw_ratings, tweet_counts,
          normalized_ratings, result, error, log, charts_created,
          summary_displayed, answer>>

NoError == [type |-> "None", msg |-> "None"]

NoAnswer == [query |-> "None", exc |-> "None", val |-> <<>>]

Raise(type, msg) ==
    /\ pc' = "raised"
    /\ error' = [type |-> type, msg |-> msg]

LogOf(stage, who, missing) == [stage |-> stage, who |-> who, missing |-> missing]

(***************************************************************************)
(* Inputs.                                                                 *)
(***************************************************************************)
UrlTwitterPath == <<"[","t","w","i","t","t","e","r",".","c","o","m","/","u","s","e","r","/","s","t","a","t","u","s","/","1","2","3","]">>
UrlAdsPath == <<"[","a","d","s",".","e","x","a","m","p","l","e",".","c","o","m","/","x","/","y","]">>
UrlShort == <<"[","a","/","b","]">>
UrlTwitter == <<"[","h","t","t","p","s",":","/","/","t","w","i","t","t","e","r",".","c","o","m","/","u","/","1","]">>
UrlAds == <<"[","h","t","t","p","s",":","/","/","a","d","s",".","e","x","a","m","p","l","e",".","c","o","m","/","x","]">>
UrlNone == <<"[","]">>
UrlOther == <<"[","[","x","/","/","e","x","a","m","p","l","e",".","o","r","g","]","]">>

A_csv == <<"A",".","c","s","v">>
B_csv == <<"B",".","c","s","v">>
C_csv == <<"C",".","c","s","v">>
D_csv == <<"D",".","c","s","v">>
A_CSV == <<"A",".","C","S","V">>
notes_txt == <<"n","o","t","e","s",".","t","x","t">>

DateCell == <<"d">>

Row(date, tweet, urls) == [date |-> date, tweet |-> tweet, urls |-> urls]
GoodRow(tweet) == Row(DateCell, tweet, UrlTwitter)

File(columns, data) ==
    [is_file |-> TRUE, readable |-> TRUE, columns |-> columns, data |-> data]

RequiredSet == SeqRange(REQUIRED_COLUMNS)

\* Sample files: compound scores 0.5, 0.5 / -0.2, 0.0 / only an ad /
\* no tweet column.
FileA == File(RequiredSet, <<GoodRow(TextYay), GoodRow(TextYay)>>)
FileB == File(RequiredSet, <<GoodRow(TextHmm), GoodRow(TextMeh)>>)
FileAds == File(RequiredSet, <<Row(DateCell, TextYay, UrlAds)>>)
FileNoTweet ==
    File({"date", "urls"}, <<[date |-> DateCell, urls |-> UrlTwitter]>>)

SampleFiles == {FileA, FileB, FileAds, FileNoTweet}
SampleNames == {A_csv, B_csv, C_csv, A_CSV}

\* Files of one complete row each, one per scored text.
ScoreTexts == {TextYay, TextBoo, TextMeh, TextHmm, TextNah}
ScoreFiles == {File(RequiredSet, <<GoodRow(t)>>) : t \in ScoreTexts}
ScoreNames == {A_csv, B_csv, C_csv, D_csv}

\* Rows for the cleaner: every url form with a complete row, a missing
\* url, a missing date, a missing tweet, and two more texts.
CleanRows ==
    {Row(DateCell, TextYay, u) :
        u \in {UrlTwitterPath, UrlAdsPath, UrlShort, UrlTwitter, UrlAds,
               UrlNone, UrlOther, NaN}}
    \cup {Row(NaN, TextYay, UrlTwitter), Row(DateCell, NaN, UrlTwitter),
          Row(DateCell, TextBoo, UrlTwitter), Row(DateCell, TextErr, UrlNone)}

\* Sequences of 1..n members of S.
RECURSIVE Tables(_, _)
Tables(S, n) ==
    IF n = 0 THEN {}
    ELSE {<<x>> : x \in S}
         \cup {Append(t, x) : <<t, x>> \in Tables(S, n - 1) \X S}

CleanFiles == {File(RequiredSet, t) : t \in Tables(CleanRows, MaxRows)}
CleanNames == {A_csv, notes_txt}

\* Sequences of at most n distinct members of S.
RECURSIVE Arrangements(_, _)
Arrangements(S, n) ==
    IF n = 0 THEN {<<>>}
    ELSE LET shorter == Arrangements(S, n - 1)
         IN  shorter \cup
             {Append(p[1], p[2]) :
                 p \in {q \in shorter \X S : q[2] \notin SeqRange(q[1])}}

\* Directories over the given names and files: any listing of at most
\* MaxFiles names, any of the files behind each CSV name (no other file is
\* ever opened).
Directories(names, files) ==
    UNION {{[exists |-> TRUE, is_dir |-> TRUE, listing |-> l, content |-> c] :
               c \in [{n \in SeqRange(l) : IsCsvFile(n)} -> files]} :
           l \in Arrangements(names, MaxFiles)}

NoDirectory ==
    [exists |-> FALSE, is_dir |-> FALSE, listing |-> <<>>, content |-> <<>>]
NotADirectory ==
    [exists |-> TRUE, is_dir |-> FALSE, listing |-> <<>>, content |-> <<>>]

\* Files for the loader: one row under all, two, one or none of the
\* required columns, with and without a column nothing requires; a header
\* without rows; a file that cannot be read; an entry that is not a file.
IdCell == <<"1">>
CellOf(column) ==
    IF column = "date" THEN DateCell
    ELSE IF column = "tweet" THEN TextYay
    ELSE IF column = "urls" THEN UrlTwitter
    ELSE IdCell
OneRowFile(columns) == File(columns, <<[c \in columns |-> CellOf(c)]>>)
FileHeaderOnly == File(RequiredSet, <<>>)
FileUnreadable ==
    [is_file |-> TRUE, readable |-> FALSE, columns |-> RequiredSet,
     data |-> <<GoodRow(TextYay)>>]
FileIsDirectory ==
    [is_file |-> FALSE, readable |-> TRUE, columns |-> {}, data |-> <<>>]
LoadFiles ==
    {OneRowFile(RequiredSet), OneRowFile(RequiredSet \cup {"id"}),
     OneRowFile({"date", "urls"}), OneRowFile({"urls", "id"}), OneRowFile({}),
     FileHeaderOnly, FileUnreadable, FileIsDirectory}
LoadNames == {A_csv, B_csv, C_csv, notes_txt}

\* The locals of run_analysis and of the calls it makes, before they run.
InitLocals ==
    /\ i = 1
    /\ csv_files = <<>>
    /\ cleaned_data = <<>>
    /\ analyzed_data = <<>>
    /\ raw_ratings = EmptyDict
    /\ tweet_counts = EmptyDict
    /\ normalized_ratings = EmptyDict
    /\ result = EmptyResult
    /\ error = NoError
    /\ log = <<>>
    /\ charts_created = FALSE
    /\ summary_displayed = FALSE
    /\ answer = NoAnswer

InitRun ==
    /\ pc = "validate"
    /\ tweet_data_list = <<>>
    /\ InitLocals

\* run_analysis() over the sample files, display_summary at its default.
Init ==
    /\ directory \in Directories(SampleNames, SampleFiles)
                     \cup {NoDirectory, NotADirectory}
    /\ display_summary = TRUE
    /\ InitRun

\* TweetData objects as a substituted loader, or a direct caller of
\* clean_all_tweet_data, may hand them over: any sample table under either
\* of two names, the table without a tweet column included.
InjectedData ==
    {[housemate_name |-> n, dataframe |-> ReadCsv(f).val,
      file_path |-> n \o CsvExtension] :
        n \in {<<"A">>, <<"B">>}, f \in SampleFiles}

\* run_analysis() from step 3 on, over the list an injected data_loader
\* returned.
InitInjected ==
    /\ InitLocals
    /\ pc = "clean"
    /\ directory = NoDirectory
    /\ display_summary = TRUE
    /\ tweet_data_list \in {<<>>} \cup Tables(InjectedData, MaxFiles)

\* run_analysis() over one-row files of every scored text.
InitRate ==
    /\ directory \in Directories(ScoreNames, ScoreFiles)
    /\ display_summary = TRUE
    /\ InitRun

\* run_analysis(display_summary) over one CSV file of up to MaxRows rows of
\* any form.
InitClean ==
    /\ directory \in Directories(CleanNames, CleanFiles)
    /\ display_summary \in BOOLEAN
    /\ InitRun

\* run_analysis() over files that load and files that do not.
InitLoad ==
    /\ directory \in Directories(LoadNames, LoadFiles)
                     \cup {NoDirectory, NotADirectory}
    /\ display_summary = TRUE
    /\ InitRun

(***************************************************************************)
(* run_analysis, step by step.  A loop iteration is one step; the step of  *)
(* the last iteration also takes the check that follows the loop.          *)
(***************************************************************************)
\* Step 1: config.validate_paths().
ValidatePaths ==
    /\ pc = "validate"
    /\ IF ~directory.exists
       THEN Raise("FileNotFoundError", "Data path does not exist")
       ELSE IF ~directory.is_dir
       THEN Raise("NotADirectoryError", "Data path is not a directory")
       ELSE pc' = "find" /\ error' = error
    /\ UNCHANGED answer
    /\ UNCHANGED <<directory, display_summary, i, csv_files, tweet_data_list,
                   cleaned_data, analyzed_data, raw_ratings, tweet_counts,
                   normalized_ratings, result, log, charts_created,
                   summary_displayed>>

\* Step 2, load_all_tweets: find_csv_files and the check that follows it.
FindFiles ==
    /\ pc = "find"
    /\ LET found == FindCsvFiles(directory)
       IN  /\ csv_files' = found.val
           /\ IF found.exc # "None"
              THEN Raise(found.exc, "Directory not found")
              ELSE IF FilesCheck(found.val) # "None"
              THEN Raise(FilesCheck(found.val), "No CSV files found")
              ELSE pc' = "load" /\ error' = error
    /\ i' = 1
    /\ UNCHANGED answer
    /\ UNCHANGED <<directory, display_summary, tweet_data_list, cleaned_data,
                   analyzed_data, raw_ratings, tweet_counts,
                   normalized_ratings, result, log, charts_created,
                   summary_displayed>>

\* Step 2, load_all_tweets: one iteration of the loop over csv_files.
LoadFile ==
    /\ pc = "load"
    /\ LET step == LoadStep(tweet_data_list, directory, csv_files[i])
       IN  /\ tweet_data_list' = step.list
           /\ log' = IF step.failed
                     THEN Append(log, LogOf("load", csv_files[i][1], step.missing))
                     ELSE log
           /\ IF i < Len(csv_files)
              THEN i' = i + 1 /\ pc' = pc /\ error' = error
              ELSE /\ i' = 1
                   /\ IF LoadedCheck(step.list) # "None"
                      THEN Raise(LoadedCheck(step.list),
                                 "Failed to load any valid tweet data")
                      ELSE pc' = "clean" /\ error' = error
    /\ UNCHANGED answer
    /\ UNCHANGED <<directory, display_summary, csv_files, cleaned_data,
                   analyzed_data, raw_ratings, tweet_counts,
                   normalized_ratings, result, charts_created,
                   summary_displayed>>

\* Step 3, clean_all_tweet_data: one iteration.  When nothing was cleaned
\* (or nothing was loaded by a substituted loader), _analyze_sentiment
\* returns an empty list and calculate_all_ratings raises on it.
CleanSubject ==
    /\ pc = "clean"
    /\ IF tweet_data_list = <<>>
       THEN /\ UNCHANGED <<cleaned_data, log, i>>
            /\ IF DataCheck(<<>>) # "None"
               THEN Raise(DataCheck(<<>>),
                          "No data provided for rating calculation")
               ELSE pc' = "normalize" /\ error' = error
       ELSE LET step == CleanStep(cleaned_data, tweet_data_list[i])
            IN  /\ cleaned_data' = step.list
                /\ log' = IF step.failed
                          THEN Append(log, LogOf("clean",
                                       tweet_data_list[i].housemate_name, {}))
                          ELSE log
                /\ IF i < Len(tweet_data_list)
                   THEN i' = i + 1 /\ pc' = pc /\ error' = error
                   ELSE /\ i' = 1
                        /\ IF step.list # <<>>
                           THEN pc' = "analyze" /\ error' = error
                           ELSE IF DataCheck(<<>>) # "None"
                           THEN Raise(DataCheck(<<>>),
                                      "No data provided for rating calculation")
                           ELSE pc' = "normalize" /\ error' = error
    /\ UNCHANGED answer
    /\ UNCHANGED <<directory, display_summary, csv_files, tweet_data_list,
                   analyzed_data, raw_ratings, tweet_counts,
                   normalized_ratings, result, charts_created,
                   summary_displayed>>

\* Step 4, _analyze_sentiment: one iteration; after the last one,
\* calculate_all_ratings checks that it was given something.
AnalyzeSubject ==
    /\ pc = "analyze"
    /\ LET step == AnalyzeStep(analyzed_data, cleaned_data[i])
       IN  /\ analyzed_data' = step.list
           /\ log' = IF step.failed
                     THEN Append(log, LogOf("analyze", cleaned_data[i][1], {}))
                     ELSE log
           /\ IF i < Len(cleaned_data)
              THEN i' = i + 1 /\ pc' = pc /\ error' = error
              ELSE /\ i' = 1
                   /\ IF DataCheck(step.list) # "None"
                      THEN Raise(DataCheck(step.list),
                                 "No data provided for rating calculation")
                      ELSE IF step.list = <<>>
                      THEN pc' = "normalize" /\ error' = error
                      ELSE pc' = "rate" /\ error' = error
    /\ UNCHANGED answer
    /\ UNCHANGED <<directory, display_summary, csv_files, tweet_data_list,
                   cleaned_data, raw_ratings, tweet_counts,
                   normalized_ratings, result, charts_created,
                   summary_displayed>>

\* Step 5, calculate_all_ratings: one iteration of the raw-rating loop and,
\* after the last one, the check that some rating was calculated.
RateSubject ==
    /\ pc = "rate"
    /\ LET step == RateStep(raw_ratings, tweet_counts, analyzed_data[i])
       IN  /\ raw_ratings' = step.raw_ratings
           /\ tweet_counts' = step.tweet_counts
           /\ log' = IF step.failed
                     THEN Append(log, LogOf("rate", analyzed_data[i][1], {}))
                     ELSE log
           /\ IF i < Len(analyzed_data)
              THEN i' = i + 1 /\ pc' = pc /\ error' = error
              ELSE /\ i' = 1
                   /\ IF RatingsCheck(step.raw_ratings) # "None"
                      THEN Raise(RatingsCheck(step.raw_ratings),
                                 "Failed to calculate any ratings")
                      ELSE pc' = "normalize" /\ error' = error
    /\ UNCHANGED answer
    /\ UNCHANGED <<directory, display_summary, csv_files, tweet_data_list,
                   cleaned_data, analyzed_data, normalized_ratings, result,
                   charts_created, summary_displayed>>

\* Step 5, calculate_all_ratings: normalise, then fill the AnalysisResult.
Normalize ==
    /\ pc = "normalize"
    /\ normalized_ratings' = NormalizeToPercentages(raw_ratings)
    /\ result' = FillResult(EmptyResult, 1, normalized_ratings',
                            raw_ratings, tweet_counts)
    /\ pc' = "charts"
    /\ UNCHANGED answer
    /\ UNCHANGED <<directory, display_summary, i, csv_files, tweet_data_list,
                   cleaned_data, analyzed_data, raw_ratings, tweet_counts,
                   error, log, charts_created, summary_displayed>>

CreateAllChartsMutSwallow ==
    /\ pc = "charts"
    /\ \E raises \in BOOLEAN :
          IF result.housemate_ratings = EmptyDict \/ raises
          THEN pc' = "summary" /\ UNCHANGED <<error, charts_created>>
          ELSE pc' = "summary" /\ charts_created' = TRUE /\ error' = error
    /\ UNCHANGED answer
    /\ UNCHANGED <<directory, display_summary, i, csv_files, tweet_data_list,
                   cleaned_data, analyzed_data, raw_ratings, tweet_counts,
                   normalized_ratings, result, log, summary_displayed>>

\* Step 6, create_all_charts: drawing and saving the charts is the work of
\* the plotting library, which may raise; run_analysis re-raises.
CreateAllCharts ==
    /\ pc = "charts"
    /\ \E raises \in BOOLEAN :
          IF result.housemate_ratings = EmptyDict
          THEN pc' = "summary" /\ UNCHANGED <<error, charts_created>>
          ELSE IF raises
          THEN Raise("Exception", "chart") /\ UNCHANGED charts_created
          ELSE pc' = "summary" /\ charts_created' = TRUE /\ error' = error
    /\ UNCHANGED answer
    /\ UNCHANGED <<directory, display_summary, i, csv_files, tweet_data_list,
                   cleaned_data, analyzed_data, raw_ratings, tweet_counts,
                   normalized_ratings, result, log, summary_displayed>>

\* Step 7 and the return.
DisplaySummary ==
    /\ pc = "summary"
    /\ summary_displayed' = display_summary
    /\ pc' = "returned"
    /\ UNCHANGED answer
    /\ UNCHANGED <<directory, display_summary, i, csv_files, tweet_data_list,
                   cleaned_data, analyzed_data, raw_ratings, tweet_counts,
                   normalized_ratings, result, error, log, charts_created>>

Next ==
    \/ ValidatePaths
    \/ FindFiles
    \/ LoadFile
    \/ CleanSubject
    \/ AnalyzeSubject
    \/ RateSubject
    \/ Normalize
    \/ CreateAllCharts
    \/ DisplaySummary

Spec == Init /\ [][Next]_vars

SpecRate == InitRate /\ [][Next]_vars

SpecClean == InitClean /\ [][Next]_vars

NextInjected ==
    \/ CleanSubject
    \/ AnalyzeSubject
    \/ RateSubject
    \/ Normalize
    \/ CreateAllCharts
    \/ DisplaySummary

SpecInjected == InitInjected /\ [][NextInjected]_vars

\* Steps 1 and 2 of run_analysis: up to the return of load_all_tweets.
NextLoad ==
    \/ ValidatePaths
    \/ FindFiles
    \/ LoadFile

SpecLoad == InitLoad /\ [][NextLoad]_vars

(***************************************************************************)
(* An AnalysisResult in a caller's hands: built by add_housemate_result    *)
(* calls (pc = "result") or returned by run_analysis, and queried.         *)
(***************************************************************************)
ResultNames == {<<"A">>, <<"B">>, <<"C">>, <<"D">>}
ResultRatings == {RInt(-25), RInt(50), RInt(125)}
ResultScores == {Rat(1, 2)}
ResultCounts == {1, 2}

\* An empty AnalysisResult(), or run_analysis from step 3 on over the list
\* a substituted loader returned.
InitResult ==
    /\ InitLocals
    /\ directory = NoDirectory
    /\ display_summary = TRUE
    /\ \/ pc = "result" /\ tweet_data_list = <<>>
       \/ pc = "clean" /\ tweet_data_list \in Tables(InjectedData, MaxFiles)

\* result.add_housemate_result(name, rating, raw_score, tweet_count)
AddResult ==
    /\ pc = "result"
    /\ \E name \in ResultNames, rating \in ResultRatings,
          raw_score \in ResultScores, tweet_count \in ResultCounts :
          /\ \/ DictHas(result.housemate_ratings, name)
             \/ Len(result.housemate_ratings) < MaxFiles
          /\ result' = AddHousemateResult(result, name, rating, raw_score,
                                          tweet_count)
    /\ answer' = NoAnswer
    /\ UNCHANGED <<directory, display_summary, pc, i, csv_files,
                   tweet_data_list, cleaned_data, analyzed_data, raw_ratings,
                   tweet_counts, normalized_ratings, error, log,
                   charts_created, summary_displayed>>

\* result.get_lowest_rated()
LowestRated ==
    /\ pc \in {"result", "returned"}
    /\ answer' = [query |-> "get_lowest_rated",
                  exc   |-> GetLowestRated(result).exc,
                  val   |-> GetLowestRated(result).val]
    /\ UNCHANGED <<directory, display_summary, pc, i, csv_files,
                   tweet_data_list, cleaned_data, analyzed_data, raw_ratings,
                   tweet_counts, normalized_ratings, result, error, log,
                   charts_created, summary_displayed>>

\* result.get_highest_rated()
HighestRated ==
    /\ pc \in {"result", "returned"}
    /\ answer' = [query |-> "get_highest_rated",
                  exc   |-> GetHighestRated(result).exc,
                  val   |-> GetHighestRated(result).val]
    /\ UNCHANGED <<directory, display_summary, pc, i, csv_files,
                   tweet_data_list, cleaned_data, analyzed_data, raw_ratings,
                   tweet_counts, normalized_ratings, result, error, log,
                   charts_created, summary_displayed>>

\* coordinator.get_eviction_prediction(result)
EvictionPrediction ==
    /\ pc \in {"result", "returned"}
    /\ answer' = [query |-> "get_eviction_prediction",
                  exc   |-> GetEvictionPrediction(result).exc,
                  val   |-> GetEvictionPrediction(result).val]
    /\ UNCHANGED <<directory, display_summary, pc, i, csv_files,
                   tweet_data_list, cleaned_data, analyzed_data, raw_ratings,
                   tweet_counts, normalized_ratings, result, error, log,
                   charts_created, summary_displayed>>

NextResult ==
    \/ CleanSubject
    \/ AnalyzeSubject
    \/ RateSubject
    \/ Normalize
    \/ CreateAllCharts
    \/ DisplaySummary
    \/ AddResult
    \/ LowestRated
    \/ HighestRated
    \/ EvictionPrediction

SpecResult == InitResult /\ [][NextResult]_vars

(***************************************************************************)
(* get_sentiment_statistics called on a DataFrame (pc = "stats"): the      *)
(* frame is the one entry of analyzed_data.                                *)
(***************************************************************************)
\* Frames of 0..MaxRows complete rows of any text, as they are and as
\* analyze_dataframe scores them, and DataFrame().
StatsFrames ==
    {[columns |-> RequiredSet,
      index   |-> [k \in 1..Len(texts) |-> k - 1],
      data    |-> [k \in 1..Len(texts) |-> GoodRow(texts[k])]] :
        texts \in {<<>>} \cup Tables(ScoreTexts \cup {TextErr, TextFine, TextPoor},
                                   MaxRows)}

StatsInputs ==
    StatsFrames
    \cup {AnalyzeDataframe(df, "tweet").val : df \in StatsFrames}
    \cup {[columns |-> {}, index |-> <<>>, data |-> <<>>],
          ReadCsv(FileNoTweet).val}

InitStats ==
    /\ InitLocals!1
    /\ csv_files = <<>>
    /\ cleaned_data = <<>>
    /\ analyzed_data \in {<<<<(<<"A">>), df>>>> : df \in StatsInputs}
    /\ raw_ratings = EmptyDict
    /\ tweet_counts = EmptyDict
    /\ normalized_ratings = EmptyDict
    /\ result = EmptyResult
    /\ error = NoError
    /\ log = <<>>
    /\ charts_created = FALSE
    /\ summary_displayed = FALSE
    /\ answer = NoAnswer
    /\ pc = "stats"
    /\ directory = NoDirectory
    /\ display_summary = TRUE
    /\ tweet_data_list = <<>>

\* sentiment_analyzer.get_sentiment_statistics(df)
SentimentStatistics ==
    /\ pc = "stats"
    /\ answer' = [query |-> "get_sentiment_statistics",
                  exc   |-> GetSentimentStatistics(analyzed_data[1][2]).exc,
                  val   |-> GetSentimentStatistics(analyzed_data[1][2]).val]
    /\ UNCHANGED <<directory, display_summary, pc, i, csv_files,
                   tweet_data_list, cleaned_data, analyzed_data, raw_ratings,
                   tweet_counts, normalized_ratings, result, error, log,
                   charts_created, summary_displayed>>

\* sentiment_analyzer.analyze_dataframe(df): the caller's frame is what
\* the call leaves of it.
AnalyzeFrame ==
    /\ pc = "stats"
    /\ answer' = [query |-> "analyze_dataframe",
                  exc   |-> AnalyzeDataframe(analyzed_data[1][2], "tweet").exc,
                  val   |-> AnalyzeDataframe(analyzed_data[1][2], "tweet").val]
    /\ analyzed_data' =
           <<<<analyzed_data[1][1],
               AnalyzeDataframe(analyzed_data[1][2], "tweet").arg>>>>
    /\ UNCHANGED <<directory, display_summary, pc, i, csv_files,
                   tweet_data_list, cleaned_data, raw_ratings,
                   tweet_counts, normalized_ratings, result, error, log,
                   charts_created, summary_displayed>>

\* data_cleaner.clean_tweet_data(TweetData(name, df, path)), for a frame a
\* TweetData can be made of.
CleanFrame ==
    /\ pc = "stats"
    /\ NewTweetData(analyzed_data[1][1], analyzed_data[1][2], A_csv).exc
           = "None"
    /\ answer' =
           [query |-> "clean_tweet_data",
            exc   |-> CleanTweetData(
                          NewTweetData(analyzed_data[1][1], analyzed_data[1][2],
                                       A_csv).val).exc,
            val   |-> CleanTweetData(
                          NewTweetData(analyzed_data[1][1], analyzed_data[1][2],
                                       A_csv).val).val]
    /\ analyzed_data' =
           <<<<analyzed_data[1][1],
               CleanTweetData(
                   NewTweetData(analyzed_data[1][1], analyzed_data[1][2],
                                A_csv).val).arg>>>>
    /\ UNCHANGED <<directory, display_summary, pc, i, csv_files,
                   tweet_data_list, cleaned_data, raw_ratings,
                   tweet_counts, normalized_ratings, result, error, log,
                   charts_created, summary_displayed>>

NextStats ==
    \/ SentimentStatistics
    \/ AnalyzeFrame
    \/ CleanFrame

SpecStats == InitStats /\ [][NextStats]_vars

(***************************************************************************)
(* Vocabulary of the properties.                                           *)
(***************************************************************************)
\* calculate_all_ratings has returned its AnalysisResult.
RatingsReturned ==
    \/ pc \in {"charts", "summary", "returned"}
    \/ pc = "raised" /\ error.msg = "chart"

\* The loops of the clean, score and raw-rating stages are over.
StagesOver == pc \notin {"validate", "find", "load", "clean", "analyze", "rate"}

Ratings == result.housemate_ratings
RatingAt(k) == Ratings[k][2]
RawTotal == RSum(DictValues(raw_ratings))
NameA == <<"A">>
NameB == <<"B">>

Positions(seq) == 1..Len(seq)

\* The sum of the ratings of every subject but the one at position k.
OthersTotal(k) ==
    RSum([m \in 1..(Len(Ratings) - 1) |->
             IF m < k THEN RatingAt(m) ELSE RatingAt(m + 1)])

\* The sign of the raw score at position k is opposite to the total's.
OppositeSign(k) ==
    \/ RLess(raw_ratings[k][2], Zero) /\ RLess(Zero, RawTotal)
    \/ RLess(Zero, raw_ratings[k][2]) /\ RLess(RawTotal, Zero)

(***************************************************************************)
(* C1..C3: normalisation (SpecRate).                                       *)
(***************************************************************************)
\* C1: in every result calculate_all_ratings returns, the normalized
\* ratings of the rated subjects sum to 100, whether the total of the raw
\* scores is zero or not.
C1_RatingsSumTo100 ==
    RatingsReturned =>
        /\ Ratings # EmptyDict
        /\ RSum(DictValues(Ratings)) = RInt(100)

\* Three subjects, a non-zero total, and a negative rating among them.
C1_Witness ==
    /\ RatingsReturned
    /\ Len(Ratings) = 3
    /\ RawTotal # Zero
    /\ \E k \in Positions(Ratings) : RLess(RatingAt(k), Zero)

\* C2: when the raw scores sum to exactly zero, each of the N subjects gets
\* the rating 100/N, whether the raw scores are all zero or cancel out.
C2_ZeroTotalEqualShare ==
    RatingsReturned /\ RawTotal = Zero =>
        /\ DictKeys(Ratings) = DictKeys(raw_ratings)
        /\ \A k \in Positions(Ratings) :
               RMul(RatingAt(k), RInt(Len(raw_ratings))) = RInt(100)
        /\ raw_ratings = <<<<NameA, Zero>>, <<NameB, Zero>>>> =>
               Ratings = <<<<NameA, RInt(50)>>, <<NameB, RInt(50)>>>>

\* Raw scores 0.5 and -0.5 cancel out and both subjects are rated 50.
C2_Witness ==
    /\ RatingsReturned
    /\ raw_ratings = <<<<NameA, Rat(1, 2)>>, <<NameB, Rat(-1, 2)>>>>
    /\ Ratings = <<<<NameA, RInt(50)>>, <<NameB, RInt(50)>>>>

\* The linear share of C3: rating * total = raw score * 100 for every
\* subject, and the ratings 62.5 and 37.5 for raw scores -0.5 and -0.3.
LinearShare ==
    /\ DictKeys(Ratings) = DictKeys(raw_ratings)
    /\ \A k \in Positions(Ratings) :
           RMul(RatingAt(k), RawTotal) = RMul(raw_ratings[k][2], RInt(100))
    /\ raw_ratings = <<<<NameA, Rat(-1, 2)>>, <<NameB, Rat(-3, 10)>>>> =>
           Ratings = <<<<NameA, Rat(125, 2)>>, <<NameB, Rat(75, 2)>>>>

\* C3 as stated: with a non-zero total every rating is the unclamped linear
\* share, and a subject whose raw score has the opposite sign of the total
\* has a negative rating while another subject's rating exceeds 100.
C3_Original ==
    RatingsReturned /\ RawTotal # Zero =>
        /\ LinearShare
        /\ \A k \in Positions(Ratings) :
               OppositeSign(k) =>
                   /\ RLess(RatingAt(k), Zero)
                   /\ \E m \in Positions(Ratings) \ {k} :
                          RLess(RInt(100), RatingAt(m))

\* C3 as amended: with a non-zero total every rating is the unclamped
\* linear share, and a subject whose raw score has the opposite sign of the
\* total has a negative rating while the ratings of the other subjects sum
\* to more than 100 (with two subjects, the other one exceeds 100).
C3_LinearShareUnclamped ==
    RatingsReturned /\ RawTotal # Zero =>
        /\ LinearShare
        /\ \A k \in Positions(Ratings) :
               OppositeSign(k) =>
                   /\ RLess(RatingAt(k), Zero)
                   /\ RLess(RInt(100), OthersTotal(k))
                   /\ Len(Ratings) = 2 =>
                          \E m \in Positions(Ratings) \ {k} :
                              RLess(RInt(100), RatingAt(m))

\* Raw scores -0.5 and -0.3 are rated 62.5 and 37.5.
C3_Witness ==
    /\ RatingsReturned
    /\ raw_ratings = <<<<NameA, Rat(-1, 2)>>, <<NameB, Rat(-3, 10)>>>>
    /\ Ratings = <<<<NameA, Rat(125, 2)>>, <<NameB, Rat(75, 2)>>>>

(***************************************************************************)
(* C4, C5: run_analysis over the sample files (Spec).                      *)
(***************************************************************************)
\* The directory holds A.csv with compound scores 0.5, 0.5 and B.csv with
\* -0.2, 0.0 and nothing else.
TwoSubjects ==
    /\ directory.listing \in {<<A_csv, B_csv>>, <<B_csv, A_csv>>}
    /\ directory.content[A_csv] = FileA
    /\ directory.content[B_csv] = FileB

NonEmptyCleaned ==
    {cleaned_data[k][1] : k \in {m \in Positions(cleaned_data) :
                                    ~DfEmpty(cleaned_data[m][2])}}

\* C5: a subject with zero cleaned rows is in none of the three mappings of
\* the result unless another file of the same name has rows; every subject
\* with rows is in all three, also when it is processed after an empty one,
\* and the rating stage fails only when no subject has rows.
C5_EmptySubjectExcluded ==
    /\ RatingsReturned =>
           /\ DictKeySet(Ratings) = NonEmptyCleaned
           /\ DictKeySet(result.raw_scores) = NonEmptyCleaned
           /\ DictKeySet(result.total_tweets) = NonEmptyCleaned
           /\ Len(analyzed_data) = Len(cleaned_data)
    /\ pc = "raised" /\ StagesOver /\ error.msg # "chart"
           /\ cleaned_data # <<>> => NonEmptyCleaned = {}

\* An empty subject was processed before a subject with rows: the first is
\* not in the result, the second is.
C5_Witness ==
    /\ pc = "returned"
    /\ \E k, m \in Positions(cleaned_data) :
           /\ k < m
           /\ DfEmpty(cleaned_data[k][2])
           /\ ~DfEmpty(cleaned_data[m][2])
           /\ ~DictHas(Ratings, cleaned_data[k][1])
           /\ DictHas(Ratings, cleaned_data[m][1])
           /\ DictGet(result.total_tweets, cleaned_data[m][1]) > 0

(***************************************************************************)
(* C6, C7: the batch stages over any list of loaded subjects               *)
(* (SpecInjected).                                                         *)
(***************************************************************************)
\* C6: run_analysis never returns a result with zero subjects.  A result is
\* built only from a non-empty raw_ratings; when no subject reaches
\* calculate_all_ratings it raises "No data provided", and when the raw
\* rating of every subject fails it raises "Failed to calculate any ratings".
C6_NeverEmptyResult ==
    /\ pc \in {"charts", "summary", "returned"} =>
           /\ Ratings # EmptyDict
           /\ result.raw_scores # EmptyDict
           /\ result.total_tweets # EmptyDict
    /\ pc = "normalize" => raw_ratings # EmptyDict
    /\ StagesOver /\ analyzed_data = <<>> =>
           /\ pc = "raised"
           /\ error = [type |-> "ValueError",
                       msg  |-> "No data provided for rating calculation"]
           /\ result = EmptyResult
    /\ StagesOver /\ analyzed_data # <<>> /\ raw_ratings = EmptyDict =>
           /\ pc = "raised"
           /\ error = [type |-> "ValueError",
                       msg  |-> "Failed to calculate any ratings"]
           /\ result = EmptyResult

\* Two subjects reached calculate_all_ratings, the raw rating of both
\* failed, and run_analysis raised.
C6_Witness ==
    /\ pc = "raised"
    /\ error.msg = "Failed to calculate any ratings"
    /\ Len(analyzed_data) >= 2
    /\ raw_ratings = EmptyDict

\* clean_all_tweet_data over the first n subjects of the list.
RECURSIVE CleanAllTweetData(_, _)
CleanAllTweetData(list, n) ==
    IF n = 0 THEN <<>>
    ELSE CleanStep(CleanAllTweetData(list, n - 1), list[n]).list

\* _analyze_sentiment over the first n cleaned subjects.
RECURSIVE AnalyzeSentiment(_, _)
AnalyzeSentiment(cleaned, n) ==
    IF n = 0 THEN <<>>
    ELSE AnalyzeStep(AnalyzeSentiment(cleaned, n - 1), cleaned[n]).list

\* The raw-rating loop of calculate_all_ratings over the first n analyzed
\* subjects.
RECURSIVE RawRatings(_, _)
RawRatings(analyzed, n) ==
    IF n = 0 THEN [raw_ratings |-> EmptyDict, tweet_counts |-> EmptyDict]
    ELSE LET before == RawRatings(analyzed, n - 1)
             step   == RateStep(before.raw_ratings, before.tweet_counts,
                                analyzed[n])
         IN  [raw_ratings  |-> step.raw_ratings,
              tweet_counts |-> step.tweet_counts]

\* The raw scores and tweet counts the three stages give for a list of
\* loaded subjects.
StagesResult(list) ==
    LET cleaned  == CleanAllTweetData(list, Len(list))
        analyzed == AnalyzeSentiment(cleaned, Len(cleaned))
    IN  RawRatings(analyzed, Len(analyzed))

\* The list without its k-th subject.
Without(list, k) == SubSeq(list, 1, k - 1) \o SubSeq(list, k + 1, Len(list))

\* The stage in which the processing of a loaded subject raises, or "None".
\* A subject whose cleaned table is empty raises in _analyze_sentiment after
\* it was appended, and again in calculate_rating.
FailingStage(tweet_data) ==
    LET name == tweet_data.housemate_name
        c == CleanTweetData(tweet_data)
    IN  IF c.exc # "None" THEN "clean"
        ELSE IF AnalyzeStep(<<>>, <<name, c.val>>).failed THEN "analyze"
        ELSE IF CalculateRating(AnalyzeDataframe(c.val, "tweet").val,
                                name).exc # "None"
        THEN "rate"
        ELSE "None"

\* C7: when the processing of a subject raises in the clean, score or
\* raw-rating stage, the batch goes on: every subject that does not raise
\* has its raw score and count, and the raw scores and counts of the batch
\* are those of the same list without the failing subject.
C7_FailureIsolated ==
    StagesOver =>
        /\ [raw_ratings |-> raw_ratings, tweet_counts |-> tweet_counts]
               = StagesResult(tweet_data_list)
        /\ \A k \in Positions(tweet_data_list) :
               IF FailingStage(tweet_data_list[k]) = "None"
               THEN /\ DictHas(raw_ratings, tweet_data_list[k].housemate_name)
                    /\ DictHas(tweet_counts, tweet_data_list[k].housemate_name)
               ELSE StagesResult(Without(tweet_data_list, k))
                        = StagesResult(tweet_data_list)

\* Cleaning raised for the second of three subjects and the subjects around
\* it are in the result.
C7_Witness ==
    /\ pc = "returned"
    /\ Len(tweet_data_list) = 3
    /\ FailingStage(tweet_data_list[1]) = "None"
    /\ FailingStage(tweet_data_list[2]) = "clean"
    /\ FailingStage(tweet_data_list[3]) = "None"
    /\ tweet_data_list[1].housemate_name # tweet_data_list[3].housemate_name
    /\ DictKeys(raw_ratings) = <<tweet_data_list[1].housemate_name,
                                 tweet_data_list[3].housemate_name>>
    /\ DictKeySet(Ratings) = DictKeySet(raw_ratings)
    /\ \E m \in Positions(log) : log[m].stage = "clean"

(***************************************************************************)
(* C8..C10: cleaning of one file, row by row (SpecClean).                  *)
(***************************************************************************)
AdsAuthority == <<"a","d","s",".","e","x","a","m","p","l","e",".","c","o","m">>
StatusSegment == <<"s","t","a","t","u","s">>
YSegment == <<"y">>

\* Cleaning is over for every loaded subject.
CleanOver ==
    /\ pc \notin {"validate", "find", "load", "clean"}
    /\ Len(cleaned_data) = Len(tweet_data_list)

RawRows(k) == tweet_data_list[k].dataframe.data
RawLabel(k, j) == tweet_data_list[k].dataframe.index[j]
Cleaned(k) == cleaned_data[k][2]

\* The positions in the cleaned table of subject k of raw row j: the row
\* that carries its label, if it was kept.
KeptAt(k, j) ==
    {m \in Positions(Cleaned(k).index) : Cleaned(k).index[m] = RawLabel(k, j)}

Kept(k, j) == KeptAt(k, j) # {}

\* Raw row j of subject k was kept and its urls cell is now v.
KeptWithUrls(k, j, v) ==
    /\ Cardinality(KeptAt(k, j)) = 1
    /\ \A m \in KeptAt(k, j) : Cleaned(k).data[m]["urls"] = v

\* Raw row j of subject k has a date and a tweet, and the urls cell u.
RawRowWith(k, j, u) ==
    /\ RawRows(k)[j]["urls"] = u
    /\ RawRows(k)[j]["date"] # NaN
    /\ RawRows(k)[j]["tweet"] # NaN

LoadOver == pc \notin {"validate", "find", "load"}

DirectoryListed == directory.exists /\ directory.is_dir

\* The directory entries with the configured extension, in listing order.
DiscoveredCsv == SelectSeq(directory.listing, IsCsvFile)

\* What it takes for a file to load: it is a readable file whose table has
\* at least one row and every required column.
Loadable(file) ==
    /\ file.is_file
    /\ file.readable
    /\ file.data # <<>>
    /\ {"date", "tweet", "urls"} \subseteq file.columns

LoadsWell(name) == Loadable(directory.content[name])
LoadsBadly(name) == ~LoadsWell(name)

\* The file names of the failures the loader logged, in order.
LoadFailures ==
    LET IsLoad(rec) == rec.stage = "load"
        recs == SelectSeq(log, IsLoad)
    IN  [m \in 1..Len(recs) |-> recs[m].who]

\* C11: load_all_tweets skips every file that is unreadable, empty or
\* lacks a required column and goes on: the list holds exactly one record
\* set, in discovery order, for each discovered file that loads, and the
\* name of each skipped file is logged.
C11_BadFilesSkipped ==
    LoadOver /\ DirectoryListed =>
        LET good == SelectSeq(DiscoveredCsv, LoadsWell)
        IN  /\ Len(tweet_data_list) = Len(good)
            /\ \A k \in 1..Len(good) :
                   /\ tweet_data_list[k].housemate_name = PathStem(good[k])
                   /\ tweet_data_list[k].file_path = good[k]
                   /\ tweet_data_list[k].dataframe.data
                          = directory.content[good[k]].data
            /\ LoadFailures = SelectSeq(DiscoveredCsv, LoadsBadly)

\* A file without the tweet column is followed by a well-formed file: the
\* list has length 1 and the log names the bad file.
C11_Witness ==
    /\ pc = "clean"
    /\ DiscoveredCsv = <<A_csv, B_csv>>
    /\ directory.content[A_csv] = OneRowFile({"date", "urls"})
    /\ directory.content[B_csv] = OneRowFile({"date", "tweet", "urls"})
    /\ Len(tweet_data_list) = 1
    /\ tweet_data_list[1].housemate_name = NameB
    /\ LoadFailures = <<A_csv>>

\* C12: load_all_tweets never returns an empty list: it raises when no
\* file with the extension is found, and it raises when every discovered
\* file fails to load.
C12_NeverEmptyList ==
    /\ pc = "clean" => tweet_data_list # <<>>
    /\ LoadOver /\ DirectoryListed /\ DiscoveredCsv = <<>> =>
           /\ pc = "raised"
           /\ error = [type |-> "ValueError", msg |-> "No CSV files found"]
           /\ tweet_data_list = <<>>
    /\ LoadOver /\ DirectoryListed /\ DiscoveredCsv # <<>>
           /\ (\A k \in Positions(DiscoveredCsv) : LoadsBadly(DiscoveredCsv[k]))
           => /\ pc = "raised"
              /\ error = [type |-> "ValueError",
                          msg  |-> "Failed to load any valid tweet data"]
    /\ LoadOver /\ DirectoryListed
           /\ (\E k \in Positions(DiscoveredCsv) : LoadsWell(DiscoveredCsv[k]))
           => pc = "clean"

\* Three files were discovered, every one failed to load, and the
\* operation raised.
C12_Witness ==
    /\ pc = "raised"
    /\ error.msg = "Failed to load any valid tweet data"
    /\ Len(DiscoveredCsv) = 3
    /\ Len(LoadFailures) = 3

\* The file was read and its table has rows.
ParsedWithRows(file) ==
    /\ file.is_file
    /\ file.readable
    /\ file.columns # {}
    /\ file.data # <<>>

\* The positions in the log of the load failures of a file.
LoadRecords(name) ==
    {m \in Positions(log) : log[m].stage = "load" /\ log[m].who = name}

Queries == {"get_lowest_rated", "get_highest_rated", "get_eviction_prediction"}

\* C14: on a result with no ratings get_lowest_rated, get_highest_rated
\* and get_eviction_prediction return the pair (None, 0.0), and no query
\* ever raises.
C14_EmptyResultSentinel ==
    answer.query \in Queries =>
        /\ answer.exc = "None"
        /\ Ratings = EmptyDict => answer.val = <<PyNone, Zero>>
        /\ Ratings # EmptyDict => answer.val[1] # PyNone

\* get_eviction_prediction answered on an empty AnalysisResult.
C14_Witness ==
    /\ pc = "result"
    /\ result = EmptyResult
    /\ answer = [query |-> "get_eviction_prediction", exc |-> "None",
                 val |-> <<PyNone, Zero>>]

\* The item at position k has the least (greatest) rating, and no item
\* before it has the same rating.
FirstMinimumAt(k) ==
    /\ \A m \in Positions(Ratings) : ~RLess(RatingAt(m), RatingAt(k))
    /\ \A m \in 1..(k - 1) : RatingAt(m) # RatingAt(k)

FirstMaximumAt(k) ==
    /\ \A m \in Positions(Ratings) : ~RLess(RatingAt(k), RatingAt(m))
    /\ \A m \in 1..(k - 1) : RatingAt(m) # RatingAt(k)

\* C15: on a non-empty result get_lowest_rated returns the item of the
\* mapping with the minimum rating, the first stored one when several tie;
\* get_highest_rated does the same for the maximum; get_eviction_prediction
\* returns the pair get_lowest_rated returns.
C15_LowestAndHighest ==
    answer.query \in Queries /\ Ratings # EmptyDict =>
        \E k \in Positions(Ratings) :
            /\ answer.val = Ratings[k]
            /\ answer.query = "get_highest_rated" => FirstMaximumAt(k)
            /\ answer.query # "get_highest_rated" => FirstMinimumAt(k)

\* Three subjects, the second and the third tie for the minimum, and
\* get_lowest_rated answered with the second.
C15_Witness ==
    /\ answer.query = "get_lowest_rated"
    /\ Len(Ratings) = 3
    /\ RatingAt(1) = RInt(125)
    /\ RatingAt(2) = RInt(-25)
    /\ RatingAt(3) = RInt(-25)
    /\ answer.val = Ratings[2]

(***************************************************************************)
(* C16: analyze_dataframe in the pipeline (SpecClean); C17: the statistics *)
(* query (SpecStats).                                                      *)
(***************************************************************************)
\* _analyze_sentiment has gone through every cleaned subject.
AnalyzeOver == pc \notin {"validate", "find", "load", "clean", "analyze"}

\* The score columns of a scored row are those of the scores s.
RowScored(row, s) ==
    /\ row["scores"] = s
    /\ row["compound"] = s.compound
    /\ row["positive"] = s.pos
    /\ row["negative"] = s.neg
    /\ row["neutral"] = s.neu

\* C16: when the scoring capability raises for the text of a row, that
\* row gets neg = 0, neu = 1, pos = 0, compound = 0, every other row keeps
\* the scores the capability returned for its text, and analyze_dataframe
\* returns with one score per cleaned row.
C16_NeutralOnScorerError ==
    AnalyzeOver =>
        /\ Len(analyzed_data) = Len(cleaned_data)
        /\ \A k \in Positions(analyzed_data) :
               /\ analyzed_data[k][1] = cleaned_data[k][1]
               /\ Len(analyzed_data[k][2].data) = Len(Cleaned(k).data)
               /\ analyzed_data[k][2].index = Cleaned(k).index
               /\ \A m \in Positions(Cleaned(k).data) :
                      /\ analyzed_data[k][2].data[m]["tweet"]
                             = Cleaned(k).data[m]["tweet"]
                      /\ IF PolarityScores(Cleaned(k).data[m]["tweet"]).exc
                               # "None"
                         THEN RowScored(analyzed_data[k][2].data[m],
                                        Scores(Zero, RInt(1), Zero, Zero))
                         ELSE RowScored(
                                 analyzed_data[k][2].data[m],
                                 PolarityScores(Cleaned(k).data[m]["tweet"]).val)

\* The capability raised for the second of two rows: it got the neutral
\* scores and the first row kept its compound score -0.5.
C16_Witness ==
    /\ AnalyzeOver
    /\ \E k \in Positions(analyzed_data) :
           /\ Len(analyzed_data[k][2].data) = 2
           /\ analyzed_data[k][2].data[1]["tweet"] = TextBoo
           /\ analyzed_data[k][2].data[1]["compound"] = Rat(-1, 2)
           /\ analyzed_data[k][2].data[2]["tweet"] = TextErr
           /\ analyzed_data[k][2].data[2]["scores"]
                  = Scores(Zero, RInt(1), Zero, Zero)

\* The frame get_sentiment_statistics was called on.
StatsFrame == analyzed_data[1][2]

Answered(query) == answer.query = query

\* C17 as stated: for every input with zero rows get_sentiment_statistics
\* returns an empty result and does not raise.
C17_Original ==
    Answered("get_sentiment_statistics") /\ Len(StatsFrame.data) = 0 =>
        /\ answer.exc = "None"
        /\ answer.val = <<>>

\* C17 as amended: for every input with zero rows that has the compound
\* column get_sentiment_statistics returns an empty result and does not
\* raise; for an input without the compound column it raises KeyError,
\* whether the input has rows or not; with rows and the column it returns
\* the statistics.
C17_EmptyStatistics ==
    Answered("get_sentiment_statistics") =>
        /\ "compound" \in StatsFrame.columns /\ Len(StatsFrame.data) = 0 =>
               /\ answer.exc = "None"
               /\ answer.val = <<>>
        /\ "compound" \notin StatsFrame.columns => answer.exc = "KeyError"
        /\ "compound" \in StatsFrame.columns /\ Len(StatsFrame.data) > 0 =>
               /\ answer.exc = "None"
               /\ DOMAIN answer.val = {"mean", "positive_ratio",
                                       "negative_ratio", "neutral_ratio"}

\* The query answered {} on a scored frame without rows.
C17_Witness ==
    /\ Answered("get_sentiment_statistics")
    /\ "compound" \in StatsFrame.columns
    /\ Len(StatsFrame.data) = 0
    /\ answer.exc = "None"
    /\ answer.val = <<>>

(***************************************************************************)
(* C18: calculate_rating in the pipeline (SpecClean).                      *)
(***************************************************************************)
Analyzed(k) == analyzed_data[k][2]

\* The last analyzed subject of that name that has rows, 0 if there is
\* none.
LastWithRows(name) ==
    LET at == {k \in Positions(analyzed_data) :
                  analyzed_data[k][1] = name /\ Len(Analyzed(k).data) > 0}
    IN  IF at = {} THEN 0 ELSE CHOOSE k \in at : \A m \in at : m <= k

\* calculate_rating raised for a subject of that name.
RatingFailed(name) == LogOf("rate", name, {}) \in SeqRange(log)

\* C18: for a subject with at least one row calculate_rating returns the
\* mean of its compound scores and its number of rows, and for a subject
\* with zero rows it raises; the raw score and the tweet count the result
\* stores for a subject are that pair, so that the count is the number of
\* cleaned rows.
C18_RawScoreAndCount ==
    /\ StagesOver =>
           /\ \A k \in Positions(analyzed_data) :
                  Len(Analyzed(k).data) = 0 => RatingFailed(analyzed_data[k][1])
           /\ \A k \in Positions(analyzed_data) :
                  RatingFailed(analyzed_data[k][1]) =>
                      \E m \in Positions(analyzed_data) :
                          /\ analyzed_data[m][1] = analyzed_data[k][1]
                          /\ Len(Analyzed(m).data) = 0
           /\ \A k \in Positions(raw_ratings) :
                  /\ LastWithRows(raw_ratings[k][1]) # 0
                  /\ raw_ratings[k][2]
                         = Mean(DfColumn(Analyzed(LastWithRows(raw_ratings[k][1])),
                                         "compound"))
                  /\ DictGet(tweet_counts, raw_ratings[k][1])
                         = Len(Cleaned(LastWithRows(raw_ratings[k][1])).data)
    /\ RatingsReturned =>
           /\ result.raw_scores = raw_ratings
           /\ result.total_tweets = tweet_counts

\* A subject of two raw rows of which cleaning kept the second: the result
\* stores the score of that row and the count 1.
C18_Witness ==
    /\ pc = "returned"
    /\ Len(RawRows(1)) = 2
    /\ Len(Cleaned(1).data) = 1
    /\ Cleaned(1).index = <<1>>
    /\ Cleaned(1).data[1]["tweet"] = TextBoo
    /\ result.raw_scores = <<<<cleaned_data[1][1], Rat(-1, 2)>>>>
    /\ result.total_tweets = <<<<cleaned_data[1][1], 1>>>>

(***************************************************************************)
(* C19: the order of discovery (Spec).  os.listdir returns the entries of  *)
(* the directory in arbitrary order; every later stage keeps the order of  *)
(* the list it receives.                                                   *)
(***************************************************************************)
\* load_all_tweets over the first n discovered files.
RECURSIVE LoadAllTweets(_, _, _)
LoadAllTweets(dir, files, n) ==
    IF n = 0 THEN <<>>
    ELSE LoadStep(LoadAllTweets(dir, files, n - 1), dir, files[n]).list

\* The mapping subject -> normalized rating run_analysis computes over a
\* directory, as a set of pairs; empty when no rating was calculated.
RunAnalysisRatings(dir) ==
    SeqRange(NormalizeToPercentages(
        StagesResult(LoadAllTweets(dir, FindCsvFiles(dir).val,
                                   Len(FindCsvFiles(dir).val))).raw_ratings))

\* The same files listed in every order.
Orders(dir) ==
    {[dir EXCEPT !.listing = l] :
        l \in {a \in Arrangements(SeqRange(dir.listing), Len(dir.listing)) :
                  Len(a) = Len(dir.listing)}}

\* No two discovered files give the same subject name.
DistinctSubjects ==
    \A k, m \in Positions(csv_files) :
        csv_files[k][2] = csv_files[m][2] => k = m

\* C19: the mapping subject -> normalized rating run_analysis returns is
\* the one it computes for the same files discovered in any other order.
C19_OrderIndependent ==
    RatingsReturned =>
        \A dir \in Orders(directory) : RunAnalysisRatings(dir) = SeqRange(Ratings)

\* What holds of the code: the mapping is the same for every order when
\* the discovered files give distinct subject names.
C19_DistinctSubjectsOrderFree ==
    RatingsReturned /\ DistinctSubjects =>
        \A dir \in Orders(directory) : RunAnalysisRatings(dir) = SeqRange(Ratings)

\* Two files of different scores under one subject name were both loaded,
\* and the run returned a mapping another order of discovery does not give.
C19_Witness ==
    /\ pc = "returned"
    /\ ~DistinctSubjects
    /\ Len(tweet_data_list) = Len(csv_files)
    /\ RunAnalysisRatings(directory) = SeqRange(Ratings)
    /\ \E dir \in Orders(directory) : RunAnalysisRatings(dir) # SeqRange(Ratings)

(***************************************************************************)
(* C20: the three mappings of an AnalysisResult (SpecResult).              *)
(***************************************************************************)
\* The names of the analyzed subjects calculate_rating returned a pair for.
RatedSubjects ==
    {analyzed_data[k][1] :
        k \in {m \in Positions(analyzed_data) :
                  /\ Len(Analyzed(m).data) > 0
                  /\ "compound" \in Analyzed(m).columns}}

\* C20: housemate_ratings, raw_scores and total_tweets have the same keys
\* after any sequence of add_housemate_result calls on an empty result and
\* in every result of calculate_all_ratings, where the keys are the
\* subjects whose raw rating succeeded.
C20_SameKeys ==
    /\ DictKeySet(result.housemate_ratings) = DictKeySet(result.raw_scores)
    /\ DictKeySet(result.raw_scores) = DictKeySet(result.total_tweets)
    /\ RatingsReturned => DictKeySet(result.housemate_ratings) = RatedSubjects

\* calculate_all_ratings returned for two loaded subjects of which the
\* first failed before its raw rating: the three mappings have the second
\* as their only key.
C20_Witness ==
    /\ pc = "returned"
    /\ Len(tweet_data_list) = 2
    /\ tweet_data_list[1].housemate_name = <<"A">>
    /\ tweet_data_list[2].housemate_name = <<"B">>
    /\ DictKeySet(result.housemate_ratings) = {<<"B">>}
    /\ DictKeySet(result.raw_scores) = {<<"B">>}
    /\ DictKeySet(result.total_tweets) = {<<"B">>}

(***************************************************************************)
(* C21: the ranking queries on a normalized result (SpecRate).             *)
(***************************************************************************)
RawOf(name) == DictGet(raw_ratings, name)

\* No subject has a smaller (greater) raw score than the named one.
MinimumRaw(name) ==
    \A k \in Positions(raw_ratings) : ~RLess(raw_ratings[k][2], RawOf(name))
MaximumRaw(name) ==
    \A k \in Positions(raw_ratings) : ~RLess(RawOf(name), raw_ratings[k][2])

\* C21: with a positive total of the raw scores the ratings are in the
\* order of the raw scores, and get_lowest_rated names a subject of minimum
\* raw score; with a negative total the ratings are in the reverse order,
\* get_lowest_rated and the eviction prediction name a subject of maximum
\* raw score and get_highest_rated one of minimum raw score.
C21_OrderFollowsTotalSign ==
    RatingsReturned =>
        /\ DictKeys(Ratings) = DictKeys(raw_ratings)
        /\ RLess(Zero, RawTotal) =>
               /\ \A k, m \in Positions(Ratings) :
                      RLess(RatingAt(k), RatingAt(m))
                          <=> RLess(raw_ratings[k][2], raw_ratings[m][2])
               /\ MinimumRaw(GetLowestRated(result).val[1])
               /\ MinimumRaw(GetEvictionPrediction(result).val[1])
               /\ MaximumRaw(GetHighestRated(result).val[1])
        /\ RLess(RawTotal, Zero) =>
               /\ \A k, m \in Positions(Ratings) :
                      RLess(RatingAt(k), RatingAt(m))
                          <=> RLess(raw_ratings[m][2], raw_ratings[k][2])
               /\ MaximumRaw(GetLowestRated(result).val[1])
               /\ MaximumRaw(GetEvictionPrediction(result).val[1])
               /\ MinimumRaw(GetHighestRated(result).val[1])

\* Raw scores -0.5, -0.2 and 0.5 have a negative total: the subject of raw
\* score 0.5 is the lowest rated and the one of -0.5 the highest rated.
C21_Witness ==
    /\ RatingsReturned
    /\ DictValues(raw_ratings) = <<Rat(-1, 2), Rat(-1, 5), Rat(1, 2)>>
    /\ GetLowestRated(result).val[1] = raw_ratings[3][1]
    /\ GetEvictionPrediction(result).val[1] = raw_ratings[3][1]
    /\ GetHighestRated(result).val[1] = raw_ratings[1][1]

(***************************************************************************)
(* C22: the ad filter, seen in the cleaned rows (SpecClean).  A blanked    *)
(* authority is a missing value, which _remove_missing_data drops.         *)
(***************************************************************************)
ExampleOrg == <<"e","x","a","m","p","l","e",".","o","r","g">>

\* Raw row j of subject k has a date and a tweet.
DatedTweet(k, j) ==
    /\ RawRows(k)[j]["date"] # NaN
    /\ RawRows(k)[j]["tweet"] # NaN

Authority(k, j) == ExtractDomain(RawRows(k)[j]["urls"])

Brackets == {"[", "]"}

\* The text without one leading "[" and one trailing "]", if present.
StripOnce(s) ==
    LET a == IF s # <<>> /\ Head(s) = "[" THEN Tail(s) ELSE s
    IN  IF a # <<>> /\ a[Len(a)] = "]" THEN SubSeq(a, 1, Len(a) - 1) ELSE a

\* The text from its first to its last character that is no bracket.
Unbracketed(s) ==
    LET inner == {k \in 1..Len(s) : s[k] \notin Brackets}
    IN  IF inner = {} THEN <<>>
        ELSE SubSeq(s, CHOOSE k \in inner : \A m \in inner : k <= m,
                       CHOOSE k \in inner : \A m \in inner : m <= k)

\* The segment at index 2 of the split on "/", "" when there are fewer
\* than 3 segments.
ThirdSegment(s) ==
    IF Len(Split(s, "/")) < 3 THEN <<>> ELSE Split(s, "/")[3]

\* The cleaned rows are as if extraction had given authority a for raw row
\* j of subject k.
ExtractedAs(k, j, a) ==
    IF Len(a) > Len(TWITTER_DOMAIN)
    THEN ~Kept(k, j)
    ELSE KeptWithUrls(k, j, a)

\* C23 as stated: extraction removes at most one leading "[" and at most
\* one trailing "]", splits the rest on "/" and yields the segment at index
\* 2, or "" when there are fewer than 3 segments.
C23_Original ==
    CleanOver =>
        \A k \in Positions(tweet_data_list) : \A j \in Positions(RawRows(k)) :
            DatedTweet(k, j) =>
                ExtractedAs(k, j,
                    ThirdSegment(StripOnce(Str(RawRows(k)[j]["urls"]))))

\* C23 as amended: extraction removes every leading and every trailing "["
\* and "]" character, splits the rest on "/" and yields the segment at
\* index 2, or "" when there are fewer than 3 segments.
C23_BracketsStripped ==
    CleanOver =>
        \A k \in Positions(tweet_data_list) : \A j \in Positions(RawRows(k)) :
            DatedTweet(k, j) =>
                ExtractedAs(k, j,
                    ThirdSegment(Unbracketed(Str(RawRows(k)[j]["urls"]))))

\* The row of urls "[[x//example.org]]" was kept with urls "example.org",
\* and the row of urls "[a/b]" with urls "".
C23_Witness ==
    /\ CleanOver
    /\ \E k \in Positions(tweet_data_list) :
           \E j, m \in Positions(RawRows(k)) :
               /\ RawRowWith(k, j, UrlOther)
               /\ KeptWithUrls(k, j, ExampleOrg)
               /\ RawRowWith(k, m, UrlShort)
               /\ KeptWithUrls(k, m, <<>>)

(***************************************************************************)
(* C24: the rows cleaning drops and keeps (SpecClean).                     *)
(***************************************************************************)
\* The ad filter blanks the authority of raw row j of subject k.
Blanked(k, j) == Len(Authority(k, j)) > Len(TWITTER_DOMAIN)

\* The kept rows are rows of the raw input, in their order: the labels of
\* the cleaned table ascend, and each cleaned row has the date and the
\* tweet of the raw row of its label.
KeptInOrder(k) ==
    /\ \A m \in Positions(Cleaned(k).index) :
           /\ \E j \in Positions(RawRows(k)) :
                  /\ RawLabel(k, j) = Cleaned(k).index[m]
                  /\ Cleaned(k).data[m]["date"] = RawRows(k)[j]["date"]
                  /\ Cleaned(k).data[m]["tweet"] = RawRows(k)[j]["tweet"]
           /\ \A n \in Positions(Cleaned(k).index) :
                  m < n => Cleaned(k).index[m] < Cleaned(k).index[n]

\* C24: cleaning drops every row with a missing date, tweet or urls value
\* in the raw input and every row whose authority the ad filter blanked,
\* and keeps all other rows in their original order.
C24_MissingAndAdsDropped ==
    CleanOver =>
        \A k \in Positions(tweet_data_list) :
            /\ KeptInOrder(k)
            /\ \A j \in Positions(RawRows(k)) :
                   IF \/ ~DatedTweet(k, j)
                      \/ RawRows(k)[j]["urls"] = NaN
                      \/ Blanked(k, j)
                   THEN ~Kept(k, j)
                   ELSE Cardinality(KeptAt(k, j)) = 1

\* What holds of the code: the dropped rows are those with a missing date
\* or tweet and those whose authority was blanked; a row that lacks only
\* its urls value is kept, and the kept rows are in their original order.
C24_MissingDateOrTweetAndAdsDropped ==
    CleanOver =>
        \A k \in Positions(tweet_data_list) :
            /\ KeptInOrder(k)
            /\ \A j \in Positions(RawRows(k)) :
                   IF ~DatedTweet(k, j) \/ Blanked(k, j)
                   THEN ~Kept(k, j)
                   ELSE Cardinality(KeptAt(k, j)) = 1

\* A row with a date and a tweet and no urls value was kept, with the
\* urls value "", after a row of the same file was dropped as an ad.
C24_Witness ==
    /\ CleanOver
    /\ \E k \in Positions(tweet_data_list) :
           /\ Len(RawRows(k)) = 2
           /\ DatedTweet(k, 1) /\ Blanked(k, 1) /\ ~Kept(k, 1)
           /\ RawRowWith(k, 2, NaN)
           /\ KeptWithUrls(k, 2, <<>>)

(***************************************************************************)
(* C25: the two passes of calculate_all_ratings (Spec).                    *)
(***************************************************************************)
\* Nothing is normalized and nothing is stored in the result.
NothingNormalized == normalized_ratings = EmptyDict /\ result = EmptyResult

\* The normalized ratings are shares of the total of the raw scores of
\* every subject whose raw rating succeeded.
SharesOfWholeTotal ==
    /\ DictKeySet(raw_ratings) = RatedSubjects
    /\ DictKeys(normalized_ratings) = DictKeys(raw_ratings)
    /\ Ratings = normalized_ratings
    /\ \A k \in Positions(normalized_ratings) :
           IF RawTotal = Zero
           THEN RMul(normalized_ratings[k][2], RInt(Len(raw_ratings)))
                    = RInt(100)
           ELSE RMul(normalized_ratings[k][2], RawTotal)
                    = RMul(raw_ratings[k][2], RInt(100))

\* C25: while the raw rating of a subject is outstanding no normalized
\* rating is computed or stored; normalization runs once, after the raw
\* rating of every subject was attempted, and every stored rating is a
\* share of the total of all raw scores that were computed.
C25_TwoPasses ==
    /\ [](/\ ~StagesOver => NothingNormalized
          /\ ~NothingNormalized => SharesOfWholeTotal)
    /\ [][normalized_ratings' # normalized_ratings \/ result' # result =>
              /\ pc = "normalize"
              /\ pc' # "normalize"
              /\ NothingNormalized]_vars

\* The result of a run in which one of three subjects failed its raw
\* rating and the other two share a non-zero total.
C25_Witness ==
    /\ pc = "returned"
    /\ Len(analyzed_data) = 3
    /\ Len(raw_ratings) = 2
    /\ RawTotal # Zero
    /\ Len(Ratings) = 2
    /\ RatingAt(1) # RatingAt(2)

(***************************************************************************)
(* C26: the ratios of get_sentiment_statistics (SpecStats).                *)
(***************************************************************************)
\* The statistics query returned the statistics of a scored frame with
\* rows.
StatisticsGiven ==
    /\ Answered("get_sentiment_statistics")
    /\ "compound" \in StatsFrame.columns
    /\ Len(StatsFrame.data) > 0
    /\ answer.exc = "None"

CompoundAt(k) == StatsFrame.data[k]["compound"]

\* The numbers of rows above 0.05, below -0.05 and in between, the ends
\* included.
RowsAbove ==
    Cardinality({k \in Positions(StatsFrame.data) :
                    RLess(Rat(1, 20), CompoundAt(k))})
RowsBelow ==
    Cardinality({k \in Positions(StatsFrame.data) :
                    RLess(CompoundAt(k), Rat(-1, 20))})
RowsBetween ==
    Cardinality({k \in Positions(StatsFrame.data) :
                    /\ ~RLess(Rat(1, 20), CompoundAt(k))
                    /\ ~RLess(CompoundAt(k), Rat(-1, 20))})

\* The ratio r is count / number of rows, and so within [0, 1].
IsFraction(r, count) ==
    /\ RMul(r, RInt(Len(StatsFrame.data))) = RInt(count)
    /\ ~RLess(r, Zero)
    /\ ~RLess(RInt(1), r)

\* C26: for a scored frame with rows positive_ratio is the fraction of rows
\* with compound > 0.05, negative_ratio the fraction with compound < -0.05
\* and neutral_ratio the fraction of all other rows, those of compound 0.05
\* and -0.05 included; each ratio is in [0, 1] and the three sum to 1.
C26_RatiosByThreshold ==
    StatisticsGiven =>
        /\ IsFraction(answer.val.positive_ratio, RowsAbove)
        /\ IsFraction(answer.val.negative_ratio, RowsBelow)
        /\ IsFraction(answer.val.neutral_ratio, RowsBetween)
        /\ RAdd(RAdd(answer.val.positive_ratio, answer.val.negative_ratio),
                answer.val.neutral_ratio) = RInt(1)

\* Rows of compound 0.05 and 0.5: one half neutral, one half positive.
C26_Witness ==
    /\ StatisticsGiven
    /\ Len(StatsFrame.data) = 2
    /\ CompoundAt(1) = Rat(1, 20)
    /\ CompoundAt(2) = Rat(1, 2)
    /\ answer.val.positive_ratio = Rat(1, 2)
    /\ answer.val.negative_ratio = Zero
    /\ answer.val.neutral_ratio = Rat(1, 2)

(***************************************************************************)
(* C27: what clean_tweet_data and analyze_dataframe leave of the table     *)
(* they are given (SpecStats).                                             *)
(***************************************************************************)
ScoreColumns == {"scores", "compound", "positive", "negative", "neutral"}

\* C27: a call of clean_tweet_data or analyze_dataframe leaves the table
\* it is given as it was, rows, columns and urls values, whether it returns
\* or raises; the table it returns is another one: the required columns
\* from clean_tweet_data, the given columns and the score columns from
\* analyze_dataframe.
C27_InputUnchanged ==
    [][answer'.query \in {"clean_tweet_data", "analyze_dataframe"} =>
           /\ analyzed_data' = analyzed_data
           /\ answer'.query = "clean_tweet_data" /\ answer'.exc = "None" =>
                  answer'.val.columns = RequiredSet
           /\ answer'.query = "analyze_dataframe" /\ answer'.exc = "None" =>
                  /\ answer'.val.columns = StatsFrame.columns \cup ScoreColumns
                  /\ Len(answer'.val.data) = Len(StatsFrame.data)]_vars

\* analyze_dataframe returned a scored table of two rows and the table it
\* was given still has no score column.
C27_Witness ==
    /\ Answered("analyze_dataframe")
    /\ answer.exc = "None"
    /\ ScoreColumns \subseteq answer.val.columns
    /\ Len(answer.val.data) = 2
    /\ StatsFrame.columns = RequiredSet
    /\ Len(StatsFrame.data) = 2

(***************************************************************************)
(* C28: the scoring stage and a subject without rows (SpecClean).          *)
(***************************************************************************)
\* The scoring stage reported a failed analysis for a subject of that
\* name.
AnalysisFailed(name) == LogOf("analyze", name, {}) \in SeqRange(log)

\* C28: the analyzed list has one entry, in order, for every cleaned
\* subject (analyze_dataframe succeeds for each); a subject without
\* cleaned rows is reported as a failed analysis, its statistics being
\* empty, and is still handed to the rating stage, which fails for it; no
\* failure is reported for a subject with rows.
C28_AppendedBeforeStatistics ==
    /\ AnalyzeOver =>
           /\ Len(analyzed_data) = Len(cleaned_data)
           /\ \A k \in Positions(cleaned_data) :
                  /\ analyzed_data[k][1] = cleaned_data[k][1]
                  /\ Len(Analyzed(k).data) = Len(Cleaned(k).data)
                  /\ "compound" \in Analyzed(k).columns
                  /\ Len(Cleaned(k).data) = 0 =>
                         AnalysisFailed(cleaned_data[k][1])
                  /\ AnalysisFailed(cleaned_data[k][1]) =>
                         \E m \in Positions(cleaned_data) :
                             /\ cleaned_data[m][1] = cleaned_data[k][1]
                             /\ Len(Cleaned(m).data) = 0
    /\ StagesOver =>
           \A k \in Positions(cleaned_data) :
               Len(Cleaned(k).data) = 0 => RatingFailed(cleaned_data[k][1])

\* The only subject lost all its rows in cleaning: it was analyzed,
\* reported as a failed analysis, and rated, which failed the run.
C28_Witness ==
    /\ pc = "raised"
    /\ error.msg = "Failed to calculate any ratings"
    /\ Len(cleaned_data) = 1
    /\ Len(Cleaned(1).data) = 0
    /\ Len(analyzed_data) = 1
    /\ AnalysisFailed(cleaned_data[1][1])
    /\ RatingFailed(cleaned_data[1][1])

(***************************************************************************)
(* C29: two files of one subject id (Spec).                                *)
(***************************************************************************)
\* No key is stored twice.
SingleEntries(dict) ==
    \A k, m \in Positions(dict) : dict[k][1] = dict[m][1] => k = m

\* C29: A.csv and A.CSV are both discovered and both give the id "A"; the
\* result has a single entry for every id, whose raw score and tweet count
\* are those of the last analyzed file of that id that was rated, rows of
\* other files of the id neither merged nor counted; the number of subjects
\* in the result is the number of distinct ids among the rated subjects.
C29_LastFileWins ==
    /\ IsCsvFile(A_csv) /\ IsCsvFile(A_CSV)
    /\ GetFilenameWithoutExtension(A_csv) = NameA
    /\ GetFilenameWithoutExtension(A_CSV) = NameA
    /\ RatingsReturned =>
           /\ SingleEntries(Ratings)
           /\ SingleEntries(result.raw_scores)
           /\ SingleEntries(result.total_tweets)
           /\ Len(Ratings) = Cardinality(RatedSubjects)
           /\ DictKeySet(Ratings) = RatedSubjects
           /\ \A name \in RatedSubjects :
                  /\ DictGet(result.raw_scores, name)
                         = Mean(DfColumn(Analyzed(LastWithRows(name)),
                                         "compound"))
                  /\ DictGet(result.total_tweets, name)
                         = Len(Analyzed(LastWithRows(name)).data)

\* A.csv (scores 0.5, 0.5) was processed before A.CSV (scores -0.2, 0.0):
\* the result has the one subject A with raw score -0.1 and 2 tweets.
C29_Witness ==
    /\ pc = "returned"
    /\ directory.listing = <<A_csv, A_CSV>>
    /\ directory.content[A_csv] = FileA
    /\ directory.content[A_CSV] = FileB
    /\ Len(analyzed_data) = 2
    /\ result.raw_scores = <<<<NameA, Rat(-1, 10)>>>>
    /\ result.total_tweets = <<<<NameA, 2>>>>
    /\ Ratings = <<<<NameA, RInt(100)>>>>

(***************************************************************************)
(* C30: steps 6 and 7 of run_analysis (SpecClean, with display_summary     *)
(* true and false).                                                        *)
(***************************************************************************)
\* create_all_charts raised and run_analysis re-raised.
ChartsFailed == pc = "raised" /\ error.msg = "chart"

\* C30: run_analysis returns its result only after create_all_charts has
\* completed; when create_all_charts raises, run_analysis raises and
\* returns nothing although the ratings are computed; the summary is
\* displayed only after the charts succeeded and when display_summary is
\* true, and then always before the return.
C30_ResultAfterCharts ==
    /\ pc \in {"summary", "returned"} => charts_created
    /\ pc = "returned" =>
           /\ Ratings # EmptyDict
           /\ summary_displayed = display_summary
    /\ ChartsFailed =>
           /\ Ratings # EmptyDict
           /\ RSum(DictValues(Ratings)) = RInt(100)
           /\ ~charts_created
           /\ ~summary_displayed
    /\ summary_displayed =>
           /\ charts_created
           /\ display_summary
           /\ pc = "returned"

\* create_all_charts raised in a run that had rated its subject and was
\* asked for the summary: no result is returned and no summary displayed.
C30_Witness ==
    /\ ChartsFailed
    /\ display_summary
    /\ Len(Ratings) = 1
    /\ ~charts_created
    /\ ~summary_displayed

====
